---- MODULE Spec2Model ----
(***************************************************************************)
(* Chat widget: WebSocket connection manager, frame decoder, query-cache   *)
(* updaters and the ChatScreen/useWebSocketChat orchestration, together    *)
(* with the HTTP send mutation and the zustand message store.              *)
(*                                                                         *)
(* Strings of the program are modelled as follows.                         *)
(*  - message text is a sequence of fragments; concatenation is \o and the *)
(*    empty string is << >>;                                               *)
(*  - a message id is a record [k, n, v]: k is the literal prefix of the   *)
(*    id ("typing-indicator", "streaming", "temp_user", "temp", ...), n    *)
(*    the Date.now() suffix of a locally generated id and v the server     *)
(*    supplied part, so that startsWith() tests are tests on k;            *)
(*  - an absent or empty JSON field is "" (both are falsy in the source).  *)
(***************************************************************************)
EXTENDS Integers, Sequences, FiniteSets, TLC

(* ------------------------------ bounds --------------------------------- *)
MaxTime == 2
MaxMsgs == 3
MaxConn == 2
MaxErrors == 2
MaxContent == 2
MaxCreating == 2

(* --------------------------- program constants ------------------------- *)
maxReconnectAttempts == 5
reconnectDelay == 1000

TempChat == "temp_new_chat_1"
Canon == {"S1", "S2"}
ConvIds == Canon \cup {TempChat}

(* sessionId.startsWith("temp_new_chat_") *)
IsTempChat(sid) == sid = TempChat

(* ------------------------------- ids ----------------------------------- *)
TypingId == [k |-> "typing-indicator", n |-> 0, v |-> ""]
StreamingId(messageId) == [k |-> "streaming", n |-> 0, v |-> messageId]
TempUserId(t) == [k |-> "temp_user", n |-> t, v |-> ""]
SrvId(s) == [k |-> "srv", n |-> 0, v |-> s]

IsTypingId(id) == id.k = "typing-indicator"
IsStreamingId(id) == id.k = "streaming"
IsPlaceholderId(id) == IsTypingId(id) \/ IsStreamingId(id)

Msg(id, chatId, content, role, ts, kind) ==
  [id |-> id, chatId |-> chatId, content |-> content, role |-> role,
   timestamp |-> ts, kind |-> kind]

(* ------------------------- array helpers ------------------------------- *)
(* Array.prototype.findIndex, 1-based; 0 when nothing matches *)
FindIndex(s, P(_)) ==
  IF \E i \in 1..Len(s) : P(s[i])
  THEN CHOOSE i \in 1..Len(s) : P(s[i]) /\ \A j \in 1..(i-1) : ~P(s[j])
  ELSE 0

(* Array.prototype.splice(i, 1) *)
RemoveAt(s, i) == [j \in 1..(Len(s)-1) |-> IF j < i THEN s[j] ELSE s[j+1]]

(* Array.prototype.filter *)
Filter(s, P(_)) == SelectSeq(s, P)

(* stable insertion of m into a list sorted by timestamp *)
RECURSIVE InsertByTs(_, _)
InsertByTs(s, m) ==
  IF s = << >> THEN <<m>>
  ELSE IF Head(s).timestamp <= m.timestamp
       THEN <<Head(s)>> \o InsertByTs(Tail(s), m)
       ELSE <<m>> \o s

(* Array.prototype.sort((a, b) => a.timestamp - b.timestamp), stable *)
RECURSIVE SortByTs(_)
SortByTs(s) ==
  IF s = << >> THEN << >>
  ELSE InsertByTs(SortByTs(SubSeq(s, 1, Len(s)-1)), s[Len(s)])

Sorted(s) == \A i \in 1..(Len(s)-1) : s[i].timestamp <= s[i+1].timestamp

IdsOf(s) == {s[i].id : i \in 1..Len(s)}
NoDupIds(s) == \A i, j \in 1..Len(s) : s[i].id = s[j].id => i = j
Placeholders(s) == {i \in 1..Len(s) : IsPlaceholderId(s[i].id)}

(* ------------------------ query cache entries -------------------------- *)
(* getQueryData(chatKeys.messages(id)): def = FALSE is `undefined' *)
NoData == [def |-> FALSE, messages |-> << >>]
Data(msgs) == [def |-> TRUE, messages |-> msgs]
(* getQueryData([...chatKeys.messages(id), "state"]) *)
NoState == [def |-> FALSE, needsInfo |-> "", isComplete |-> FALSE, suggestions |-> << >>]
State(ni, ic, sg) == [def |-> TRUE, needsInfo |-> ni, isComplete |-> ic, suggestions |-> sg]

IsTypingMsg(m) == IsTypingId(m.id)
IsStreamingMsg(m) == IsStreamingId(m.id)
IsTempUserMsg(m) == m.id.k = "temp_user"

(* ------------------------ inbound frame values ------------------------- *)
OobTexts == {"bye"}

Frame(type, chunk, mid, rid, complete, message, sid) ==
  [type |-> type, chunk |-> chunk, message_id |-> mid, response_id |-> rid,
   complete |-> complete, message |-> message, session_id |-> sid]

(* chunk frames: with and without message_id, and one with an empty chunk *)
ChunkFrames ==
  {Frame("chunk", "A ", "", "", FALSE, "", ""),
   Frame("chunk", "novated ", "M1", "", FALSE, "", ""),
   Frame("chunk", "", "M1", "", FALSE, "", "")}
(* complete frames: two well-formed ones and two missing an id *)
CompleteFrames ==
  {Frame("complete", "", "M1", "R1", FALSE, "", ""),
   Frame("complete", "", "M1", "R1", TRUE, "", ""),
   Frame("complete", "", "", "R1", FALSE, "", ""),
   Frame("complete", "", "M1", "", FALSE, "", "")}
OobFrames == {Frame(ty, "", "", r, FALSE, t, s) :
                  ty \in {"idle_warning", "session_end"}, r \in {"R2", ""},
                  t \in OobTexts, s \in Canon}
ErrorFrames == {Frame("error", "", "", "", FALSE, "", "")}
OtherFrames == {Frame("pong", "", "", "", FALSE, "", "")}
Frames == ChunkFrames \cup CompleteFrames \cup OobFrames \cup ErrorFrames \cup OtherFrames

(* --------------------------- cache updaters ---------------------------- *)
(* a faulty variant of updateStreamingMessage that leaves the typing        *)
(* indicator in the list; C1 must tell it from the original                 *)
updateStreamingMessageKeepsTyping(old, sessionId, messageId, content, t) ==
  IF ~old.def THEN old
  ELSE
    LET streamingIndex == FindIndex(old.messages, IsStreamingMsg)
        streamingMessage == Msg(StreamingId(messageId), sessionId, content,
                                "assistant", t, "")
    IN [old EXCEPT !.messages =
          IF streamingIndex > 0
          THEN [old.messages EXCEPT ![streamingIndex] = streamingMessage]
          ELSE Append(old.messages, streamingMessage)]

(* updateStreamingMessage: the setQueryData updater *)
updateStreamingMessage(old, sessionId, messageId, content, t) ==
  IF ~old.def THEN old
  ELSE
    LET typingIndex == FindIndex(old.messages, IsTypingMsg)
        m1 == IF typingIndex > 0 THEN RemoveAt(old.messages, typingIndex)
              ELSE old.messages
        streamingIndex == FindIndex(m1, IsStreamingMsg)
        streamingMessage == Msg(StreamingId(messageId), sessionId, content,
                                "assistant", t, "")
    IN [old EXCEPT !.messages =
          IF streamingIndex > 0 THEN [m1 EXCEPT ![streamingIndex] = streamingMessage]
          ELSE Append(m1, streamingMessage)]

(* updateCompleteMessage: content fallback to the cached streaming entry *)
finalContentOf(old, content) ==
  IF content = << >> /\ old.def
  THEN LET i == FindIndex(old.messages, IsStreamingMsg)
       IN IF i > 0 THEN old.messages[i].content ELSE content
  ELSE content

(* updateCompleteMessage: the setQueryData updater of the message list *)
updateCompleteMessage(old, sessionId, messageId, responseId, content, t) ==
  IF ~old.def THEN old
  ELSE
    LET finalContent == finalContentOf(old, content)
        streamingIndex == FindIndex(old.messages, IsStreamingMsg)
        m1 == IF streamingIndex > 0 THEN RemoveAt(old.messages, streamingIndex)
              ELSE old.messages
        typingIndex == FindIndex(m1, IsTypingMsg)
        m2 == IF typingIndex > 0 THEN RemoveAt(m1, typingIndex) ELSE m1
        userMessageIndex == FindIndex(m2, IsTempUserMsg)
        m3 == IF userMessageIndex > 0 /\ messageId # ""
              THEN [m2 EXCEPT ![userMessageIndex].id = SrvId(messageId)]
              ELSE m2
        IsResp(m) == m.id = SrvId(responseId)
        existingAssistantIndex == FindIndex(m3, IsResp)
        assistantMessage == Msg(SrvId(responseId), sessionId, finalContent,
                                "assistant", t, "")
    IN [old EXCEPT !.messages =
          IF existingAssistantIndex > 0
          THEN [m3 EXCEPT ![existingAssistantIndex].content = finalContent]
          ELSE Append(m3, assistantMessage)]

(* a faulty variant of addOobMessage that always appends; C34 must tell it  *)
(* from the original                                                        *)
addOobMessageAppending(old, tag, sessionId, message, responseId, t) ==
  LET oid == IF responseId # "" THEN SrvId(responseId)
             ELSE [k |-> tag, n |-> t, v |-> ""]
      oobMessage == Msg(oid, sessionId, <<message>>, "assistant", t, tag)
  IN IF ~old.def THEN Data(<<oobMessage>>)
     ELSE [old EXCEPT !.messages = Append(old.messages, oobMessage)]

(* addIdleWarningMessage / addSessionEndMessage: the message-list updater;  *)
(* tag is "idle_warning" or "session_end"                                   *)
addOobMessage(old, tag, sessionId, message, responseId, t) ==
  LET oid == IF responseId # "" THEN SrvId(responseId)
             ELSE [k |-> tag, n |-> t, v |-> ""]
      oobMessage == Msg(oid, sessionId, <<message>>, "assistant", t, tag)
      IsSame(m) == (responseId # "" /\ m.id = SrvId(responseId))
                   \/ (m.id.k = tag /\ m.content = <<message>>)
      existingIndex == FindIndex(old.messages, IsSame)
  IN IF ~old.def THEN Data(<<oobMessage>>)
     ELSE [old EXCEPT !.messages =
             IF existingIndex > 0 THEN [old.messages EXCEPT ![existingIndex] = oobMessage]
             ELSE Append(old.messages, oobMessage)]

(* ----------------------------- decoder --------------------------------- *)
EmptyStreaming == [content |-> << >>, messageId |-> ""]

(* a faulty variant of handleWebSocketMessage that puts the fragment in     *)
(* front of the buffered content; C30 must tell it from the original       *)
handleWebSocketMessagePrepending(data, streamingState) ==
  CASE data.type = "chunk" /\ data.chunk # "" ->
         [content |-> <<data.chunk>> \o streamingState.content,
          messageId |-> IF data.message_id # "" THEN data.message_id
                        ELSE streamingState.messageId]
    [] data.type = "complete" -> EmptyStreaming
    [] data.type = "error" -> EmptyStreaming
    [] OTHER -> streamingState

(* handleWebSocketMessage: the returned StreamingState *)
handleWebSocketMessage(data, streamingState) ==
  CASE data.type = "chunk" /\ data.chunk # "" ->
         [content |-> Append(streamingState.content, data.chunk),
          messageId |-> IF data.message_id # "" THEN data.message_id
                        ELSE streamingState.messageId]
    [] data.type = "complete" -> EmptyStreaming
    [] data.type = "error" -> EmptyStreaming
    [] OTHER -> streamingState

(* ======================================================================= *)
(* State                                                                   *)
(* ======================================================================= *)
VARIABLES
  now,              \* Date.now()
  sessions,         \* canonical conversations that exist on the server
  cache,            \* queryClient data under chatKeys.messages(id)
  convState,        \* queryClient data under [...chatKeys.messages(id), "state"]
  fetching,         \* useMessagesQuery: a getChatHistory call is in flight
  mounted,          \* a ChatScreen is rendered
  chatId,           \* ChatScreen prop (chatStore.activeChatId)
  actualSessionId,  \* ChatScreen state
  isSending,        \* ChatScreen state
  creating,         \* handleSendMessage calls awaiting createSession
  isConnected,      \* useWebSocketChat state
  isConnecting,     \* useWebSocketChat state
  streamingState,   \* useWebSocketChat state (the accumulator)
  connectionRef,    \* useWebSocketChat ref: index into conns, 0 is null
  connectTimer,     \* the 100 ms timer of the connect effect is armed
  conns,            \* the WebSocketConnection instances
  sent,             \* payloads handed to WebSocket.send, in order
  errors,           \* calls of ChatScreen's onError observer (saturating)
  mut,              \* useSendMessageMutation: the mutations in flight
  store,            \* useMessageStore: the zustand state
  pending,          \* useMessageStore: the locals of the calls in flight
  server            \* messages the server has persisted, per session

wsVars == <<now, sessions, cache, convState, fetching, mounted, chatId,
            actualSessionId, isSending, creating, isConnected, isConnecting,
            streamingState, connectionRef, connectTimer, conns, sent, errors>>

legacyVars == <<mut, store, pending, server>>
vars == <<wsVars, legacyVars>>

ConnIds == 1..MaxConn

(* a WebSocketConnection: ws is the readyState of this.ws ("null" when the  *)
(* field is null); detached counts sockets dropped by disconnect() whose    *)
(* close event is still to come; owner says whether the callbacks given to  *)
(* setCallbacks belong to the ChatScreen that is mounted now; sockets       *)
(* counts the WebSocket objects created since one last opened, terminal    *)
(* the calls of onError with the "multiple attempts" error, and delay is    *)
(* the delay (ms) the armed reconnect timer was given, 0 when none is armed *)
FreeConn ==
  [live |-> FALSE, sid |-> "", owner |-> FALSE, ws |-> "null",
   connectionTimeout |-> FALSE, reconnectTimeout |-> FALSE,
   reconnectAttempts |-> 0, isManuallyClosed |-> FALSE, detached |-> 0,
   sockets |-> 0, terminal |-> 0, delay |-> 0]

(* new WebSocketConnection(config) followed by setCallbacks *)
NewConn(sid) == [FreeConn EXCEPT !.live = TRUE, !.sid = sid, !.owner = TRUE]

(* WebSocketConnection.connect() *)
connect(c) ==
  IF c.ws \in {"OPEN", "CONNECTING"} THEN c
  ELSE [c EXCEPT !.isManuallyClosed = FALSE, !.ws = "CONNECTING",
                 !.connectionTimeout = TRUE,
                 !.sockets = IF c.sockets <= maxReconnectAttempts + 1
                             THEN c.sockets + 1 ELSE c.sockets]

(* WebSocketConnection.disconnect() *)
disconnect(c) ==
  [c EXCEPT !.isManuallyClosed = TRUE, !.reconnectTimeout = FALSE,
            !.delay = 0,
            !.connectionTimeout = FALSE, !.ws = "null",
            !.detached = IF c.ws # "null" THEN c.detached + 1 ELSE c.detached]

(* a faulty variant of attemptReconnect that does not count the attempt;   *)
(* C6 must tell it from the original                                       *)
attemptReconnectUncounted(c) ==
  IF c.reconnectAttempts >= maxReconnectAttempts THEN c
  ELSE [c EXCEPT !.reconnectTimeout = TRUE,
                 !.delay = reconnectDelay * c.reconnectAttempts]

(* a faulty variant of attemptReconnect that computes the delay before it  *)
(* increments the counter; C16 must tell it from the original              *)
attemptReconnectDelayFirst(c) ==
  IF c.reconnectAttempts >= maxReconnectAttempts THEN c
  ELSE [c EXCEPT !.reconnectAttempts = c.reconnectAttempts + 1,
                 !.reconnectTimeout = TRUE,
                 !.delay = reconnectDelay * c.reconnectAttempts]

(* WebSocketConnection.attemptReconnect() *)
attemptReconnect(c) ==
  IF c.reconnectAttempts >= maxReconnectAttempts THEN c
  ELSE [c EXCEPT !.reconnectAttempts = c.reconnectAttempts + 1,
                 !.reconnectTimeout = TRUE,
                 !.delay = reconnectDelay * (c.reconnectAttempts + 1)]

shouldReconnect(c, code) ==
  ~c.isManuallyClosed /\ c.reconnectAttempts < maxReconnectAttempts /\ code # 1000

(* the terminal branch of ws.onclose *)
reportsTerminal(c, code) ==
  ~shouldReconnect(c, code) /\ c.reconnectAttempts >= maxReconnectAttempts

(* ws.onclose, for the current handle (current = TRUE) or a detached one *)
onclose(c, code, current) ==
  LET c1 == [c EXCEPT !.connectionTimeout = FALSE, !.ws = "null",
                      !.detached = IF current THEN c.detached ELSE c.detached - 1]
  IN IF shouldReconnect(c, code) THEN attemptReconnect(c1)
     ELSE IF c.reconnectAttempts >= maxReconnectAttempts
          THEN [c1 EXCEPT !.terminal = IF c.terminal < 2 THEN c.terminal + 1 ELSE 2]
          ELSE c1

(* an instance nothing refers to and that can never act again is dropped *)
Dead(c) == c.ws = "null" /\ ~c.connectionTimeout /\ ~c.reconnectTimeout /\ c.detached = 0
Collect(cs, ref) ==
  [i \in ConnIds |-> IF cs[i].live /\ i # ref /\ Dead(cs[i]) THEN FreeConn ELSE cs[i]]

HasFree(cs) == \E i \in ConnIds : ~cs[i].live
FreeSlot(cs) == CHOOSE i \in ConnIds : ~cs[i].live /\ \A j \in ConnIds : j < i => cs[j].live

(* the hook's enabled flag and session id as rendered *)
Enabled(cid, asid) == ~IsTempChat(cid) /\ ~IsTempChat(asid)

(* useWebSocketChat.connect(): "clean up existing connection if any" *)
dropExisting(cs, ref) ==
  IF ref # 0 THEN Collect([cs EXCEPT ![ref] = disconnect(cs[ref])], 0) ELSE cs

(* useWebSocketChat.connect(): the new values of the ref, the instances and *)
(* isConnecting                                                             *)
hookConnect(cs, ref, connecting, sid, enabled) ==
  IF ~enabled \/ IsTempChat(sid) THEN [conns |-> cs, ref |-> ref, isConnecting |-> connecting]
  ELSE IF ref # 0 /\ cs[ref].ws \in {"OPEN", "CONNECTING"}
       THEN [conns |-> cs, ref |-> ref, isConnecting |-> connecting]
       ELSE LET cs1 == dropExisting(cs, ref)
                j == FreeSlot(cs1)
            IN [conns |-> [cs1 EXCEPT ![j] = connect(NewConn(sid))],
                ref |-> j, isConnecting |-> TRUE]

(* does hookConnect create a connection? *)
hookConnectCreates(cs, ref, sid, enabled) ==
  enabled /\ ~IsTempChat(sid) /\ ~(ref # 0 /\ cs[ref].ws \in {"OPEN", "CONNECTING"})

(* the model holds at most MaxConn instances at a time *)
hookConnectFits(cs, ref, sid, enabled) ==
  hookConnectCreates(cs, ref, sid, enabled) => HasFree(dropExisting(cs, ref))

Bump(n) == IF n < MaxErrors THEN n + 1 ELSE MaxErrors

(* ======================================================================= *)
(* ChatScreen / useWebSocketChat / WebSocketConnection                     *)
(* ======================================================================= *)
Fresh == Canon \ sessions
UserText == "What is a novated lease?"

(* ---------------- initial values of the send mutation and the store ---- *)
MaxMutations == 1
MaxStoreSends == 1
MaxDetached == 2
MutIds == 1..MaxMutations
StoreSendIds == 1..MaxStoreSends

(* a useMutation call that is not running *)
IdleMutation ==
  [phase |-> "idle", sessionId |-> "", actualSessionId |-> "",
   optimisticUserMessageId |-> TypingId, previousMessages |-> NoData]

(* a useMessageStore.sendMessage call that is not running *)
IdleStoreSend ==
  [phase |-> "idle", sessionId |-> "", actualSessionId |-> "", userMessage |-> TypingId]

(* create<MessageStore>: every record of the store starts empty; "unset" is  *)
(* a key the record does not hold                                           *)
EmptyStore ==
  [messages |-> [c \in ConvIds |-> NoData],
   isLoading |-> [c \in ConvIds |-> "unset"],
   isLoadingOlder |-> [c \in ConvIds |-> "unset"],
   isSending |-> [c \in ConvIds |-> "unset"],
   hasMore |-> [c \in ConvIds |-> "unset"],
   offset |-> [c \in ConvIds |-> 0],
   loadedSessions |-> [c \in ConvIds |-> "unset"],
   suggestions |-> [c \in ConvIds |-> "unset"],
   needsInfo |-> [c \in ConvIds |-> "unset"],
   isComplete |-> [c \in ConvIds |-> "unset"]]

LegacyIdle ==
  /\ mut = [i \in MutIds |-> IdleMutation]
  /\ store = EmptyStore
  /\ pending = [olderOffset |-> [c \in ConvIds |-> 0],
                sends |-> [i \in StoreSendIds |-> IdleStoreSend]]
  /\ server = [c \in Canon |-> << >>]

WsInit ==
  /\ now = 0
  /\ sessions = {"S1"}
  /\ cache = [c \in ConvIds |-> NoData]
  /\ convState = [c \in ConvIds |-> NoState]
  /\ fetching = [c \in ConvIds |-> FALSE]
  /\ mounted = FALSE
  /\ chatId = ""
  /\ actualSessionId = ""
  /\ isSending = FALSE
  /\ creating = 0
  /\ isConnected = FALSE
  /\ isConnecting = FALSE
  /\ streamingState = EmptyStreaming
  /\ connectionRef = 0
  /\ connectTimer = FALSE
  /\ conns = [i \in ConnIds |-> FreeConn]
  /\ sent = << >>
  /\ errors = 0
  /\ LegacyIdle

(* time passes *)
Tick ==
  /\ now < MaxTime
  /\ now' = now + 1
  /\ UNCHANGED <<sessions, cache, convState, fetching, mounted, chatId,
                 actualSessionId, isSending, creating, isConnected, isConnecting,
                 streamingState, connectionRef, connectTimer, conns, sent, errors>>
  /\ UNCHANGED legacyVars

(* ChatWidget renders <ChatScreen chatId={activeChatId}>: the component     *)
(* state is initialised, useMessagesQuery starts a fetch for a canonical id *)
(* and the connect effect arms its timer                                    *)
Mount(c) ==
  /\ ~mounted /\ creating = 0
  /\ c \in sessions \cup {TempChat}
  /\ IsTempChat(c) => Fresh # {}
  /\ mounted' = TRUE
  /\ chatId' = c
  /\ actualSessionId' = c
  /\ isSending' = FALSE
  /\ isConnected' = FALSE
  /\ isConnecting' = FALSE
  /\ streamingState' = EmptyStreaming
  /\ connectionRef' = 0
  /\ connectTimer' = ~IsTempChat(c)
  /\ fetching' = IF IsTempChat(c) THEN fetching ELSE [fetching EXCEPT ![c] = TRUE]
  /\ UNCHANGED <<now, sessions, cache, convState, creating, conns, sent, errors>>
  /\ UNCHANGED legacyVars

(* the cleanup of the connect effect: registered by the branch the effect   *)
(* took when it last ran                                                    *)
effectCleanupConns(cs, ref, enabled) ==
  IF enabled \/ ref = 0 THEN cs
  ELSE [cs EXCEPT ![ref] = disconnect(cs[ref])]

(* ChatScreen unmounts (back to the list, widget closed) *)
Unmount ==
  /\ mounted
  /\ mounted' = FALSE
  /\ connectTimer' = FALSE
  /\ LET en == Enabled(chatId, actualSessionId)
         cs == effectCleanupConns(conns, connectionRef, en)
     IN conns' = Collect([i \in ConnIds |-> [cs[i] EXCEPT !.owner = FALSE]], 0)
  /\ connectionRef' = 0
  /\ chatId' = ""
  /\ actualSessionId' = ""
  /\ isSending' = FALSE
  /\ isConnected' = FALSE
  /\ isConnecting' = FALSE
  /\ streamingState' = EmptyStreaming
  /\ UNCHANGED <<now, sessions, cache, convState, fetching, creating, sent, errors>>
  /\ UNCHANGED legacyVars

(* --------------------------- history fetch ----------------------------- *)
(* convertApiMessage *)
convertApiMessage(id, sid, ts, kind) ==
  Msg(SrvId(id), sid, <<id>>, IF id = "M1" THEN "user" ELSE "assistant", ts, kind)
(* the pages getChatHistory may return: server ids are unique, timestamps   *)
(* are the server's and need not agree with the local clock                 *)
HistPages(sid) ==
  {<< >>,
   <<convertApiMessage("M1", sid, 0, "")>>,
   <<convertApiMessage("R2", sid, 2, ""), convertApiMessage("M1", sid, 0, "")>>,
   <<convertApiMessage("M1", sid, 2, ""), convertApiMessage("R2", sid, 2, "session_end")>>}

hasSessionEnd(msgs) == \E i \in 1..Len(msgs) : msgs[i].kind = "session_end"

(* useMessagesQuery.queryFn resolves: its result replaces the cached data *)
HistoryFetchDone(c, page) ==
  /\ fetching[c]
  /\ fetching' = [fetching EXCEPT ![c] = FALSE]
  /\ cache' = [cache EXCEPT ![c] = Data(SortByTs(page))]
  /\ convState' = IF hasSessionEnd(page)
                  THEN [convState EXCEPT ![c] = State("", TRUE, << >>)]
                  ELSE convState
  /\ UNCHANGED <<now, sessions, mounted, chatId, actualSessionId, isSending,
                 creating, isConnected, isConnecting, streamingState,
                 connectionRef, connectTimer, conns, sent, errors>>
  /\ UNCHANGED legacyVars

(* getChatHistory rejects: the cached data stays *)
HistoryFetchFail(c) ==
  /\ fetching[c]
  /\ fetching' = [fetching EXCEPT ![c] = FALSE]
  /\ UNCHANGED <<now, sessions, cache, convState, mounted, chatId,
                 actualSessionId, isSending, creating, isConnected, isConnecting,
                 streamingState, connectionRef, connectTimer, conns, sent, errors>>
  /\ UNCHANGED legacyVars

(* ----------------------- connection events ----------------------------- *)
(* the hook's connection callbacks reach React state only while the         *)
(* ChatScreen that created the instance is mounted                          *)
Owned(i) == mounted /\ conns[i].owner

(* the 100 ms timer of the connect effect fires: useWebSocketChat.connect() *)
ConnectTimerFires ==
  /\ mounted /\ connectTimer
  /\ LET en == Enabled(chatId, actualSessionId)
         r == hookConnect(conns, connectionRef, isConnecting, actualSessionId, en)
     IN /\ hookConnectFits(conns, connectionRef, actualSessionId, en)
        /\ conns' = r.conns
        /\ connectionRef' = r.ref
        /\ isConnecting' = r.isConnecting
  /\ connectTimer' = FALSE
  /\ UNCHANGED <<now, sessions, cache, convState, fetching, mounted, chatId,
                 actualSessionId, isSending, creating, isConnected,
                 streamingState, sent, errors>>
  /\ UNCHANGED legacyVars

(* a faulty variant of onopen that keeps the attempt counter; C17 must tell *)
(* it from the original                                                    *)
onopenKeepsCounter(c) ==
  [c EXCEPT !.ws = "OPEN", !.connectionTimeout = FALSE, !.sockets = 0]

(* a faulty variant of onopen that leaves the connection timeout armed;    *)
(* C18 must tell it from the original                                      *)
onopenKeepsTimeout(c) ==
  [c EXCEPT !.ws = "OPEN", !.reconnectAttempts = 0, !.sockets = 0]

(* ws.onopen: the fields of the instance *)
onopen(c) ==
  [c EXCEPT !.ws = "OPEN", !.connectionTimeout = FALSE,
            !.reconnectAttempts = 0, !.sockets = 0]

(* ws.onopen *)
SocketOpen(i) ==
  /\ conns[i].live /\ conns[i].ws = "CONNECTING"
  /\ conns' = [conns EXCEPT ![i] = onopen(conns[i])]
  /\ IF Owned(i)
     THEN isConnected' = TRUE /\ isConnecting' = FALSE
     ELSE UNCHANGED <<isConnected, isConnecting>>
  /\ UNCHANGED <<now, sessions, cache, convState, fetching, mounted, chatId,
                 actualSessionId, isSending, creating, streamingState,
                 connectionRef, connectTimer, sent, errors>>
  /\ UNCHANGED legacyVars

(* a faulty variant of CloseCallbacks that drops the cached list of the     *)
(* conversation when the retries are exhausted; C28 must tell it from the  *)
(* original                                                                *)
CloseCallbacksClearingList(i, terminalError) ==
  /\ cache' = IF terminalError THEN [cache EXCEPT ![conns[i].sid] = NoData] ELSE cache
  /\ IF Owned(i)
     THEN /\ isConnected' = FALSE
          /\ isConnecting' = FALSE
          /\ isSending' = IF terminalError THEN FALSE ELSE isSending
          /\ errors' = IF terminalError THEN Bump(errors) ELSE errors
     ELSE UNCHANGED <<isConnected, isConnecting, isSending, errors>>

(* what the hook and ChatScreen do with the callbacks of a close event:    *)
(* React state is set, the query cache is not written                      *)
CloseCallbacks(i, terminalError) ==
  /\ cache' = cache
  /\ IF Owned(i)
     THEN /\ isConnected' = FALSE
          /\ isConnecting' = FALSE
          /\ isSending' = IF terminalError THEN FALSE ELSE isSending
          /\ errors' = IF terminalError THEN Bump(errors) ELSE errors
     ELSE UNCHANGED <<isConnected, isConnecting, isSending, errors>>

(* the transport closes the current socket: the error event (readyState is  *)
(* already CLOSED, so ws.onerror reports nothing) and then ws.onclose       *)
SocketClose(i, code) ==
  /\ conns[i].live /\ conns[i].ws \in {"CONNECTING", "OPEN", "CLOSING"}
  /\ conns[i].ws # "OPEN" => code = 1006
  /\ conns' = Collect([conns EXCEPT ![i] = onclose(conns[i], code, TRUE)], connectionRef)
  /\ CloseCallbacks(i, reportsTerminal(conns[i], code))
  /\ UNCHANGED <<now, sessions, convState, fetching, mounted, chatId,
                 actualSessionId, creating, streamingState, connectionRef,
                 connectTimer, sent>>
  /\ UNCHANGED legacyVars

(* the close event of a socket that disconnect() dropped *)
DetachedClose(i) ==
  /\ conns[i].live /\ conns[i].detached > 0
  /\ conns' = Collect([conns EXCEPT ![i] = onclose(conns[i], 1006, FALSE)], connectionRef)
  /\ CloseCallbacks(i, reportsTerminal(conns[i], 1006))
  /\ UNCHANGED <<now, sessions, convState, fetching, mounted, chatId,
                 actualSessionId, creating, streamingState, connectionRef,
                 connectTimer, sent>>
  /\ UNCHANGED legacyVars

(* the 5 s connection timeout fires *)
ConnectionTimeoutFires(i) ==
  /\ conns[i].live /\ conns[i].connectionTimeout
  /\ conns' = [conns EXCEPT ![i].connectionTimeout = FALSE,
                 ![i].ws = IF conns[i].ws = "CONNECTING" THEN "CLOSING" ELSE conns[i].ws]
  /\ IF conns[i].ws = "CONNECTING" /\ Owned(i)
     THEN /\ isConnected' = FALSE /\ isConnecting' = FALSE
          /\ isSending' = FALSE /\ errors' = Bump(errors)
     ELSE UNCHANGED <<isConnected, isConnecting, isSending, errors>>
  /\ UNCHANGED <<now, sessions, cache, convState, fetching, mounted, chatId,
                 actualSessionId, creating, streamingState, connectionRef,
                 connectTimer, sent>>
  /\ UNCHANGED legacyVars

(* the reconnect timer armed by attemptReconnect fires *)
ReconnectTimerFires(i) ==
  /\ conns[i].live /\ conns[i].reconnectTimeout
  /\ conns' = [conns EXCEPT ![i] =
                 LET c == [conns[i] EXCEPT !.reconnectTimeout = FALSE, !.delay = 0]
                 IN IF c.isManuallyClosed THEN c ELSE connect(c)]
  /\ UNCHANGED <<now, sessions, cache, convState, fetching, mounted, chatId,
                 actualSessionId, isSending, creating, isConnected, isConnecting,
                 streamingState, connectionRef, connectTimer, sent, errors>>
  /\ UNCHANGED legacyVars

(* -------------------------- inbound frames ----------------------------- *)
FrameAccepted(f, sid) ==
  CASE f.type = "chunk" -> f.chunk # ""
    [] f.type = "complete" -> f.message_id # "" /\ f.response_id # ""
    [] f.type \in {"idle_warning", "session_end"} ->
         f.message # "" /\ f.session_id # "" /\ f.response_id # "" /\ f.session_id = sid
    [] f.type = "error" -> TRUE
    [] OTHER -> FALSE

(* the cached list after the callbacks handleWebSocketMessage invokes *)
frameCache(old, f, sid, st, t) ==
  CASE ~FrameAccepted(f, sid) -> old
    [] f.type = "chunk" ->
         updateStreamingMessage(old, sid,
           IF f.message_id # "" THEN f.message_id ELSE st.messageId,
           Append(st.content, f.chunk), t)
    [] f.type = "complete" ->
         updateCompleteMessage(old, sid, f.message_id, f.response_id, st.content, t)
    [] f.type \in {"idle_warning", "session_end"} ->
         addOobMessage(old, f.type, sid, f.message, f.response_id, t)
    [] OTHER -> old

(* the conversation state after the callbacks *)
frameState(old, f, sid) ==
  CASE ~FrameAccepted(f, sid) -> old
    [] f.type = "complete" -> State("", f.complete, << >>)
    [] f.type = "session_end" -> State("", TRUE, << >>)
    [] OTHER -> old

(* ws.onmessage with a frame that parses: the setStreamingState updater of  *)
(* the hook's onMessage callback                                            *)
DeliverFrame(f) ==
  /\ mounted /\ connectionRef # 0 /\ conns[connectionRef].ws = "OPEN"
  /\ LET sid == conns[connectionRef].sid
         ends == f.type = "session_end" /\ FrameAccepted(f, sid)
         fails == f.type = "error"
     IN /\ cache' = [cache EXCEPT ![sid] = frameCache(cache[sid], f, sid, streamingState, now)]
        /\ Len(cache'[sid].messages) <= MaxMsgs
        /\ Len(handleWebSocketMessage(f, streamingState).content) <= MaxContent
        /\ convState' = [convState EXCEPT ![sid] = frameState(convState[sid], f, sid)]
        /\ streamingState' = handleWebSocketMessage(f, streamingState)
        /\ conns' = IF ends
                    THEN Collect([conns EXCEPT ![connectionRef] = disconnect(conns[connectionRef])], 0)
                    ELSE conns
        /\ connectionRef' = IF ends THEN 0 ELSE connectionRef
        /\ isConnected' = IF ends THEN FALSE ELSE isConnected
        /\ isConnecting' = IF ends THEN FALSE ELSE isConnecting
        /\ isSending' = IF fails THEN FALSE ELSE isSending
        /\ errors' = IF fails THEN Bump(errors) ELSE errors
  /\ UNCHANGED <<now, sessions, fetching, mounted, chatId, actualSessionId,
                 creating, connectTimer, sent>>
  /\ UNCHANGED legacyVars

(* ws.onmessage with data JSON.parse rejects *)
DeliverMalformed ==
  /\ mounted /\ connectionRef # 0 /\ conns[connectionRef].ws = "OPEN"
  /\ isConnected' = FALSE
  /\ isConnecting' = FALSE
  /\ isSending' = FALSE
  /\ errors' = Bump(errors)
  /\ UNCHANGED <<now, sessions, cache, convState, fetching, mounted, chatId,
                 actualSessionId, creating, streamingState, connectionRef,
                 connectTimer, conns, sent>>
  /\ UNCHANGED legacyVars

(* ------------------------------- send ---------------------------------- *)
IsPlaceholderMsg(m) == IsPlaceholderId(m.id)
NotPlaceholderMsg(m) == ~IsPlaceholderId(m.id)

(* a faulty variant of optimisticInsert that keeps the placeholders already *)
(* listed; C29 must tell it from the original                              *)
optimisticInsertKeepsPlaceholders(old, sid, text, t) ==
  LET optimisticUserMessage == Msg(TempUserId(t), sid, <<text>>, "user", t, "")
      typingIndicator == Msg(TypingId, sid, << >>, "assistant", t, "")
  IN IF ~old.def THEN Data(<<optimisticUserMessage, typingIndicator>>)
     ELSE [old EXCEPT !.messages =
             old.messages \o <<optimisticUserMessage, typingIndicator>>]

(* handleSendMessage: the optimistic setQueryData updater *)
optimisticInsert(old, sid, text, t) ==
  LET optimisticUserMessage == Msg(TempUserId(t), sid, <<text>>, "user", t, "")
      typingIndicator == Msg(TypingId, sid, << >>, "assistant", t, "")
  IN IF ~old.def THEN Data(<<optimisticUserMessage, typingIndicator>>)
     ELSE [old EXCEPT !.messages =
             Filter(old.messages, NotPlaceholderMsg)
               \o <<optimisticUserMessage, typingIndicator>>]

(* a faulty variant of rollback that removes the optimistic user message    *)
(* only; C3 must tell it from the original                                  *)
rollbackUserMessageOnly(old, optimisticUserMessageId) ==
  LET Keep(m) == m.id # optimisticUserMessageId
  IN IF ~old.def THEN old
     ELSE [old EXCEPT !.messages = Filter(old.messages, Keep)]

(* handleSendMessage: the setQueryData updater run when nothing was sent *)
rollback(old, optimisticUserMessageId) ==
  LET Keep(m) == m.id # optimisticUserMessageId /\ ~IsPlaceholderId(m.id)
  IN IF ~old.def THEN old
     ELSE [old EXCEPT !.messages = Filter(old.messages, Keep)]

(* connectionRef.current?.isConnected *)
CanTransmit == connectionRef # 0 /\ conns[connectionRef].ws = "OPEN"

(* handleSendMessage from the optimistic insert on, for session sid; stale  *)
(* says that sendWebSocketMessage is the closure of a temp-chat render      *)
sendFrom(sid, paySid, text, t, stale) ==
  LET inserted == optimisticInsert(cache[sid], sid, text, t)
      ok == CanTransmit
      en == ~stale /\ Enabled(chatId, actualSessionId)
      reconnects == ~ok /\ ~isConnected /\ ~isConnecting
      r == IF reconnects
           THEN hookConnect(conns, connectionRef, isConnecting, actualSessionId, en)
           ELSE [conns |-> conns, ref |-> connectionRef, isConnecting |-> isConnecting]
  IN /\ reconnects => hookConnectFits(conns, connectionRef, actualSessionId, en)
     /\ cache' = [cache EXCEPT ![sid] =
                    IF ok THEN inserted ELSE rollback(inserted, TempUserId(t))]
     /\ Len(cache'[sid].messages) <= MaxMsgs
     /\ sent' = IF ok THEN Append(sent, [session_id |-> paySid, message |-> text]) ELSE sent
     /\ conns' = r.conns
     /\ connectionRef' = r.ref
     /\ isConnecting' = r.isConnecting

(* a faulty variant of sendStreaming that empties the accumulator whether   *)
(* or not the payload went out; C8 must tell it from the original           *)
sendStreamingAlwaysCleared(st, wasSent) == EmptyStreaming

(* useWebSocketChat.sendMessage: the accumulator after connection.send *)
sendStreaming(st, wasSent) == IF wasSent THEN EmptyStreaming ELSE st

(* handleSendMessage(content) on a canonical conversation *)
HandleSend ==
  /\ mounted /\ ~isSending
  /\ ~(IsTempChat(chatId) /\ actualSessionId = chatId)
  /\ now < MaxTime
  /\ now' = now + 1
  /\ sendFrom(actualSessionId, actualSessionId, UserText, now + 1, FALSE)
  /\ isSending' = CanTransmit
  /\ streamingState' = sendStreaming(streamingState, CanTransmit)
  /\ UNCHANGED <<sessions, convState, fetching, mounted, chatId, actualSessionId,
                 creating, isConnected, connectTimer, errors>>
  /\ UNCHANGED legacyVars

(* a faulty variant of send that does not tell the error observer when the *)
(* transport raises; C14 must tell it from the original                    *)
sendSilentOnError(c, raises) ==
  [returned |-> c.ws = "OPEN" /\ ~raises,
   transmitted |-> c.ws = "OPEN" /\ ~raises,
   notified |-> FALSE]

(* WebSocketConnection.send(data): what it returns, whether the frame went  *)
(* to the transport and whether callbacks.onError was called; raises says   *)
(* that ws.send throws                                                      *)
send(c, raises) ==
  [returned |-> c.ws = "OPEN" /\ ~raises,
   transmitted |-> c.ws = "OPEN" /\ ~raises,
   notified |-> c.ws = "OPEN" /\ raises]

(* handleSendMessage(content) on a canonical conversation when ws.send      *)
(* throws: connection.send reports the error to the hook's onError, which   *)
(* runs ChatScreen's onError, and returns false; the optimistic insert is   *)
(* rolled back                                                              *)
HandleSendRaises ==
  /\ mounted /\ ~isSending
  /\ ~(IsTempChat(chatId) /\ actualSessionId = chatId)
  /\ CanTransmit
  /\ now < MaxTime
  /\ now' = now + 1
  /\ LET r == send(conns[connectionRef], TRUE)
         sid == actualSessionId
         inserted == optimisticInsert(cache[sid], sid, UserText, now + 1)
     IN /\ cache' = [cache EXCEPT ![sid] =
                       IF r.returned THEN inserted
                       ELSE rollback(inserted, TempUserId(now + 1))]
        /\ Len(cache'[sid].messages) <= MaxMsgs
        /\ sent' = IF r.transmitted
                   THEN Append(sent, [session_id |-> sid, message |-> UserText])
                   ELSE sent
        /\ isConnected' = IF r.notified THEN FALSE ELSE isConnected
        /\ isConnecting' = IF r.notified THEN FALSE ELSE isConnecting
        /\ errors' = IF r.notified THEN Bump(errors) ELSE errors
        /\ isSending' = r.returned
        /\ streamingState' = sendStreaming(streamingState, r.returned)
  /\ UNCHANGED <<sessions, convState, fetching, mounted, chatId, actualSessionId,
                 creating, connectionRef, connectTimer, conns>>
  /\ UNCHANGED legacyVars

(* handleSendMessage(content) on a temp chat: up to the createSession await *)
HandleSendTemp ==
  /\ mounted /\ ~isSending
  /\ IsTempChat(chatId) /\ actualSessionId = chatId
  /\ creating < MaxCreating /\ Cardinality(Fresh) > creating
  /\ isSending' = TRUE
  /\ creating' = creating + 1
  /\ UNCHANGED <<now, sessions, cache, convState, fetching, mounted, chatId,
                 actualSessionId, isConnected, isConnecting, streamingState,
                 connectionRef, connectTimer, conns, sent, errors>>
  /\ UNCHANGED legacyVars

(* the id the server gives the next session it creates *)
SessionOrder == <<"S1", "S2">>
NewSession ==
  SessionOrder[CHOOSE i \in 1..Len(SessionOrder) :
                 /\ SessionOrder[i] \in Fresh
                 /\ \A j \in 1..(i-1) : SessionOrder[j] \notin Fresh]

(* createSessionMutation.mutateAsync() resolves with session s: the rest of *)
(* handleSendMessage runs with the closures of the temp-chat render, then   *)
(* the component re-renders with the new chatId and session id              *)
CreateSessionOk ==
  /\ creating > 0
  /\ LET s == NewSession
         wasTemp == IsTempChat(chatId)
     IN /\ sessions' = sessions \cup {s}
        /\ creating' = creating - 1
        /\ sendFrom(s, TempChat, UserText, now, TRUE)
        /\ IF mounted
           THEN /\ chatId' = s
                /\ actualSessionId' = s
                /\ isSending' = CanTransmit
                /\ streamingState' = IF wasTemp THEN EmptyStreaming
                                     ELSE sendStreaming(streamingState, CanTransmit)
                /\ isConnected' = IF wasTemp THEN FALSE ELSE isConnected
                /\ connectTimer' = TRUE
                /\ fetching' = [fetching EXCEPT ![s] = TRUE]
           ELSE UNCHANGED <<chatId, actualSessionId, isSending, streamingState,
                            isConnected, connectTimer, fetching>>
  /\ UNCHANGED <<now, convState, mounted, errors>>
  /\ UNCHANGED legacyVars

(* createSessionMutation.mutateAsync() rejects *)
CreateSessionFail ==
  /\ creating > 0
  /\ creating' = creating - 1
  /\ isSending' = IF mounted THEN FALSE ELSE isSending
  /\ UNCHANGED <<now, sessions, cache, convState, fetching, mounted, chatId,
                 actualSessionId, isConnected, isConnecting, streamingState,
                 connectionRef, connectTimer, conns, sent, errors>>
  /\ UNCHANGED legacyVars

(* the 200 ms timer of the "reset sending state" effect fires *)
ResetSending ==
  /\ mounted /\ isSending
  /\ streamingState = EmptyStreaming
  /\ Placeholders(cache[chatId].messages) = {}
  /\ isSending' = FALSE
  /\ UNCHANGED <<now, sessions, cache, convState, fetching, mounted, chatId,
                 actualSessionId, creating, isConnected, isConnecting,
                 streamingState, connectionRef, connectTimer, conns, sent, errors>>
  /\ UNCHANGED legacyVars

(* ======================================================================= *)
(* useSendMessageMutation (HTTP send over the query cache)                 *)
(* ======================================================================= *)
wsIdle ==
  UNCHANGED <<mounted, chatId, actualSessionId, isSending, creating, isConnected,
              isConnecting, streamingState, connectionRef, connectTimer, conns,
              sent, errors>>

(* onMutate: the setQueryData updater *)
mutateInsert(old, optimisticUserMessage) ==
  IF ~old.def THEN Data(<<optimisticUserMessage>>)
  ELSE [old EXCEPT !.messages = Append(old.messages, optimisticUserMessage)]

(* mutate({sessionId, content}): onMutate, then mutationFn up to its first  *)
(* await (createSession for a temp chat, sendMessage otherwise)             *)
Mutate(i, sessionId) ==
  /\ mut[i].phase = "idle"
  /\ sessionId \in sessions \cup {TempChat}
  /\ IsTempChat(sessionId) => Fresh # {}
  /\ now < MaxTime
  /\ now' = now + 1
  /\ LET optimisticUserMessage ==
           Msg(TempUserId(now + 1), sessionId, <<UserText>>, "user", now + 1, "")
     IN /\ cache' = [cache EXCEPT ![sessionId] = mutateInsert(@, optimisticUserMessage)]
        /\ mut' = [mut EXCEPT ![i] =
                     [phase |-> IF IsTempChat(sessionId) THEN "creating" ELSE "sending",
                      sessionId |-> sessionId,
                      actualSessionId |-> sessionId,
                      optimisticUserMessageId |-> optimisticUserMessage.id,
                      previousMessages |-> cache[sessionId]]]
  /\ Len(cache'[sessionId].messages) <= MaxMsgs
  /\ fetching' = [fetching EXCEPT ![sessionId] = FALSE]
  /\ wsIdle
  /\ UNCHANGED <<sessions, convState, store, pending, server>>

(* mutationFn: createSession resolves *)
MutateSessionCreated(i) ==
  /\ mut[i].phase = "creating"
  /\ Fresh # {}
  /\ sessions' = sessions \cup {NewSession}
  /\ mut' = [mut EXCEPT ![i].phase = "sending", ![i].actualSessionId = NewSession]
  /\ wsIdle
  /\ UNCHANGED <<now, cache, convState, fetching, store, pending, server>>

(* onError: the rollback *)
mutateRollback(old, previousMessages) ==
  IF previousMessages.def THEN previousMessages ELSE old

(* mutationFn rejects (createSession or sendMessage failed): onError *)
MutateFailed(i) ==
  /\ mut[i].phase \in {"creating", "sending"}
  /\ cache' = [cache EXCEPT ![mut[i].sessionId] =
                 mutateRollback(@, mut[i].previousMessages)]
  /\ mut' = [mut EXCEPT ![i] = IdleMutation]
  /\ wsIdle
  /\ UNCHANGED <<now, sessions, convState, fetching, store, pending, server>>

(* onSuccess: the setQueryData updater of the message list; n numbers the   *)
(* ids the server gave the two messages                                     *)
mutateSuccess(old, actual, optimisticUserMessageId, n, t) ==
  LET messageId == [k |-> "srv", n |-> n, v |-> "M"]
      responseId == [k |-> "srv", n |-> n, v |-> "R"]
      userMessage == Msg(messageId, actual, << >>, "user", t, "")
      assistantMessage == Msg(responseId, actual, <<"response">>, "assistant", t, "")
      updatedMessages ==
        [j \in 1..Len(old.messages) |->
           IF old.messages[j].id = optimisticUserMessageId
           THEN [old.messages[j] EXCEPT !.id = messageId]
           ELSE old.messages[j]]
  IN IF ~old.def THEN Data(<<userMessage, assistantMessage>>)
     ELSE [old EXCEPT !.messages = Append(updatedMessages, assistantMessage)]

(* mutationFn resolves with the chat API's response: onSuccess *)
MutateSucceeded(i, complete) ==
  /\ mut[i].phase = "sending"
  /\ LET actual == mut[i].actualSessionId
     IN /\ cache' = [cache EXCEPT ![actual] =
                       mutateSuccess(@, actual, mut[i].optimisticUserMessageId,
                                     mut[i].optimisticUserMessageId.n, now)]
        /\ Len(cache'[actual].messages) <= MaxMsgs
        /\ convState' = [convState EXCEPT ![actual] = State("", complete, << >>)]
  /\ mut' = [mut EXCEPT ![i] = IdleMutation]
  /\ wsIdle
  /\ UNCHANGED <<now, sessions, fetching, store, pending, server>>

(* MutSpec: the send mutation on a temp chat and on conversation S1, whose  *)
(* history may or may not be cached                                         *)
MutNext ==
  \/ Mount("S1")
  \/ \E page \in HistPages("S1") : HistoryFetchDone("S1", page)
  \/ \E i \in MutIds : \E c \in ConvIds : Mutate(i, c)
  \/ \E i \in MutIds : MutateSessionCreated(i)
  \/ \E i \in MutIds : MutateFailed(i)
  \/ \E i \in MutIds : \E complete \in BOOLEAN : MutateSucceeded(i, complete)

MutSpec == WsInit /\ [][MutNext]_vars

(* ======================================================================= *)
(* useMessageStore (zustand)                                               *)
(* ======================================================================= *)
MESSAGES_PER_PAGE == 20

(* an API message as getChatHistory returns it *)
ApiMessage(id, role, timestamp) ==
  [id |-> id, message |-> <<id.v>>, role |-> role, timestamp |-> timestamp]

(* messageStore.convertApiMessage *)
storeConvertApiMessage(apiMsg, sessionId) ==
  Msg(apiMsg.id, sessionId, apiMsg.message, apiMsg.role, apiMsg.timestamp, "")

(* msg.id.startsWith('temp_') || msg.id === 'streaming' ||                  *)
(* msg.id === 'typing-indicator' || msg.id === 'typing'                     *)
IsStoreTempMsg(m) ==
  \/ m.id.k \in {"temp", "temp_user", "typing-indicator", "typing"}
  \/ (m.id.k = "streaming" /\ m.id.v = "")
IsStoreRealMsg(m) == ~IsStoreTempMsg(m)

(* state.messages[sessionId] || [] *)
storeMessages(st, c) == st.messages[c].messages

(* api.getChatHistory(sessionId, limit, offset): the server's results from *)
(* the offset on, sorted by timestamp; hasMore compares with the total     *)
getChatHistory(c, limit, offset) ==
  LET all == server[c]
      last == IF offset + limit < Len(all) THEN offset + limit ELSE Len(all)
      results == SubSeq(all, offset + 1, last)
  IN [messages |-> SortByTs(results),
      hasMore |-> IF offset + Len(results) < Len(all) THEN "true" ELSE "false"]

RECURSIVE MapConvert(_, _)
MapConvert(page, c) ==
  IF page = << >> THEN << >>
  ELSE <<storeConvertApiMessage(Head(page), c)>> \o MapConvert(Tail(page), c)

(* newMessages.forEach: push unless a message with the id is already there *)
RECURSIVE PushNew(_, _)
PushNew(all, new) ==
  IF new = << >> THEN all
  ELSE PushNew(IF Head(new).id \in IdsOf(all) THEN all ELSE Append(all, Head(new)),
               Tail(new))

(* loadInitialMessages: the early returns *)
loadInitialSkips(st, c) ==
  \/ st.loadedSessions[c] = "true"
  \/ st.isLoading[c] = "true"
  \/ \E j \in 1..Len(storeMessages(st, c)) : IsStoreRealMsg(storeMessages(st, c)[j])
  \/ st.isSending[c] = "true"

(* loadInitialMessages(sessionId) up to the getChatHistory await *)
LoadInitialStart(c) ==
  /\ c \in sessions
  /\ ~loadInitialSkips(store, c)
  /\ store' = [store EXCEPT !.isLoading[c] = "true", !.offset[c] = 0]
  /\ wsIdle
  /\ UNCHANGED <<now, sessions, cache, convState, fetching, mut, pending, server>>

(* loadInitialMessages: the list stored when getChatHistory resolves *)
loadInitialMerge(existing, apiMessages, c) ==
  LET convertedMessages == SortByTs(MapConvert(apiMessages, c))
      existingTempMessages == Filter(existing, IsStoreTempMsg)
      existingRealMessages == Filter(existing, IsStoreRealMsg)
      IsNew(m) == m.id \notin IdsOf(existingRealMessages)
      newMessages == Filter(convertedMessages, IsNew)
      allRealMessages == SortByTs(PushNew(existingRealMessages, newMessages))
  IN [real |-> allRealMessages, all |-> allRealMessages \o existingTempMessages]

(* loadInitialMessages: getChatHistory resolves *)
LoadInitialDone(c) ==
  /\ store.isLoading[c] = "true"
  /\ LET h == getChatHistory(c, MESSAGES_PER_PAGE, 0)
         r == loadInitialMerge(storeMessages(store, c), h.messages, c)
     IN store' = [store EXCEPT !.messages[c] = Data(r.all),
                               !.isLoading[c] = "false",
                               !.hasMore[c] = h.hasMore,
                               !.offset[c] = Len(r.real),
                               !.loadedSessions[c] = "true"]
  /\ Len(storeMessages(store', c)) <= MaxMsgs
  /\ wsIdle
  /\ UNCHANGED <<now, sessions, cache, convState, fetching, mut, pending, server>>

(* loadInitialMessages: getChatHistory rejects *)
LoadInitialFail(c) ==
  /\ store.isLoading[c] = "true"
  /\ store' = [store EXCEPT !.isLoading[c] = "false"]
  /\ wsIdle
  /\ UNCHANGED <<now, sessions, cache, convState, fetching, mut, pending, server>>

(* loadOlderMessages(sessionId) up to the getChatHistory await *)
LoadOlderStart(c) ==
  /\ c \in sessions
  /\ store.isLoadingOlder[c] # "true"
  /\ store.hasMore[c] # "false"
  /\ store' = [store EXCEPT !.isLoadingOlder[c] = "true"]
  /\ pending' = [pending EXCEPT !.olderOffset[c] = store.offset[c]]
  /\ wsIdle
  /\ UNCHANGED <<now, sessions, cache, convState, fetching, mut, server>>

(* loadOlderMessages: the list stored when a non-empty page arrives *)
loadOlderMerge(existingMessages, apiMessages, c) ==
  SortByTs(MapConvert(apiMessages, c)) \o existingMessages

(* loadOlderMessages: getChatHistory resolves *)
LoadOlderDone(c) ==
  /\ store.isLoadingOlder[c] = "true"
  /\ LET h == getChatHistory(c, MESSAGES_PER_PAGE, pending.olderOffset[c])
     IN store' =
          IF h.messages = << >>
          THEN [store EXCEPT !.isLoadingOlder[c] = "false", !.hasMore[c] = "false"]
          ELSE [store EXCEPT
                  !.messages[c] =
                     Data(loadOlderMerge(storeMessages(store, c), h.messages, c)),
                  !.isLoadingOlder[c] = "false",
                  !.hasMore[c] = h.hasMore,
                  !.offset[c] = pending.olderOffset[c] + Len(h.messages)]
  /\ Len(storeMessages(store', c)) <= MaxMsgs
  /\ wsIdle
  /\ UNCHANGED <<now, sessions, cache, convState, fetching, mut, pending, server>>

(* loadOlderMessages: getChatHistory rejects *)
LoadOlderFail(c) ==
  /\ store.isLoadingOlder[c] = "true"
  /\ store' = [store EXCEPT !.isLoadingOlder[c] = "false"]
  /\ wsIdle
  /\ UNCHANGED <<now, sessions, cache, convState, fetching, mut, pending, server>>

(* sendMessage: "move messages from temp sessionId to real sessionId" *)
storePromote(st, sessionId, actual) ==
  [st EXCEPT !.messages[sessionId] = NoData,
             !.messages[actual] = Data(storeMessages(st, sessionId)),
             !.isLoading[actual] = "false",
             !.hasMore[actual] = "false",
             !.loadedSessions[actual] = "true"]

(* sendMessage: "add user message optimistically" *)
storeOptimistic(st, actual, userMessage) ==
  [st EXCEPT !.messages[actual] = Data(Append(storeMessages(st, actual), userMessage)),
             !.isSending[actual] = "true"]

(* the optimistic user message of a store send made at time t *)
StoreUserMessage(actual, t) ==
  Msg([k |-> "temp", n |-> t, v |-> ""], actual, <<UserText>>, "user", t, "")

(* sendMessage(sessionId, content) up to its first await: createSession for *)
(* a temp chat, the chat API otherwise                                      *)
StoreSendStart(i, c) ==
  /\ pending.sends[i].phase = "idle"
  /\ c \in sessions \cup {TempChat}
  /\ IsTempChat(c) => Fresh # {}
  /\ now < MaxTime
  /\ now' = now + 1
  /\ IF IsTempChat(c)
     THEN /\ store' = store
          /\ pending' = [pending EXCEPT !.sends[i] =
                           [phase |-> "creating", sessionId |-> c,
                            actualSessionId |-> c, userMessage |-> TypingId]]
     ELSE /\ store' = storeOptimistic(store, c, StoreUserMessage(c, now + 1))
          /\ pending' = [pending EXCEPT !.sends[i] =
                           [phase |-> "sending", sessionId |-> c,
                            actualSessionId |-> c,
                            userMessage |-> StoreUserMessage(c, now + 1).id]]
  /\ Len(storeMessages(store', c)) <= MaxMsgs
  /\ wsIdle
  /\ UNCHANGED <<sessions, cache, convState, fetching, mut, server>>

(* sendMessage: createSession resolves; the promotion and the optimistic    *)
(* insert run before the next await                                         *)
StoreSessionCreated(i) ==
  /\ pending.sends[i].phase = "creating"
  /\ Fresh # {}
  /\ LET actual == NewSession
         userMessage == StoreUserMessage(actual, now)
     IN /\ sessions' = sessions \cup {actual}
        /\ store' = storeOptimistic(storePromote(store, pending.sends[i].sessionId, actual),
                                    actual, userMessage)
        /\ Len(storeMessages(store', actual)) <= MaxMsgs
        /\ pending' = [pending EXCEPT !.sends[i].phase = "sending",
                                      !.sends[i].actualSessionId = actual,
                                      !.sends[i].userMessage = userMessage.id]
  /\ wsIdle
  /\ UNCHANGED <<now, cache, convState, fetching, mut, server>>

(* sendMessage: createSession rejects and the error is rethrown *)
StoreSessionFailed(i) ==
  /\ pending.sends[i].phase = "creating"
  /\ pending' = [pending EXCEPT !.sends[i] = IdleStoreSend]
  /\ wsIdle
  /\ UNCHANGED <<now, sessions, cache, convState, fetching, mut, store, server>>

(* sendMessage, non-streaming: the list stored when the chat API answers *)
storeSendMerge(existingMessages, userMessageId, messageId, responseId, actual, t) ==
  LET Keep(m) == /\ m.id # userMessageId
                 /\ m.id # messageId
                 /\ ~(m.content = <<UserText>> /\ m.role = "user"
                      /\ m.id.k \in {"temp", "temp_user"})
      updatedUserMessage == Msg(messageId, actual, <<UserText>>, "user", t, "")
      assistantMessage == Msg(responseId, actual, <<"response">>, "assistant", t, "")
  IN Filter(existingMessages, Keep) \o <<updatedUserMessage, assistantMessage>>

(* sendMessage: the chat API answers; the server has persisted both         *)
(* messages under its own timestamp ts                                      *)
StoreSendDone(i, complete, ts) ==
  /\ pending.sends[i].phase = "sending"
  /\ LET actual == pending.sends[i].actualSessionId
         n == pending.sends[i].userMessage.n
         messageId == [k |-> "srv", n |-> n, v |-> "M"]
         responseId == [k |-> "srv", n |-> n, v |-> "R"]
     IN /\ store' = [store EXCEPT
                       !.messages[actual] =
                          Data(storeSendMerge(storeMessages(store, actual),
                                              pending.sends[i].userMessage,
                                              messageId, responseId, actual, now)),
                       !.isSending[actual] = "false",
                       !.loadedSessions[actual] = "true",
                       !.suggestions[actual] =
                          IF store.suggestions[actual] = "unset" THEN "none" ELSE @,
                       !.needsInfo[actual] = "null",
                       !.isComplete[actual] = IF complete THEN "true" ELSE "false"]
        /\ Len(storeMessages(store', actual)) <= MaxMsgs
        /\ server' = [server EXCEPT ![actual] =
                        @ \o <<ApiMessage(messageId, "user", ts),
                               ApiMessage(responseId, "assistant", ts)>>]
  /\ pending' = [pending EXCEPT !.sends[i] = IdleStoreSend]
  /\ wsIdle
  /\ UNCHANGED <<now, sessions, cache, convState, fetching, mut>>

(* sendMessage: the catch block *)
storeSendCatch(st, actual, userMessageId) ==
  LET Keep(m) == m.id # userMessageId
  IN [st EXCEPT !.messages[actual] = Data(Filter(storeMessages(st, actual), Keep)),
                !.isSending[actual] = "false"]

(* sendMessage: the chat API rejects *)
StoreSendFailed(i) ==
  /\ pending.sends[i].phase = "sending"
  /\ store' = storeSendCatch(store, pending.sends[i].actualSessionId,
                             pending.sends[i].userMessage)
  /\ pending' = [pending EXCEPT !.sends[i] = IdleStoreSend]
  /\ wsIdle
  /\ UNCHANGED <<now, sessions, cache, convState, fetching, mut, server>>

(* the server already holds a history for S1 *)
ServerHistories ==
  {<< >>,
   <<ApiMessage(SrvId("H1"), "user", 2)>>,
   <<ApiMessage(SrvId("H1"), "user", 2), ApiMessage(SrvId("H2"), "assistant", 0)>>}

StoreInit ==
  /\ now = 0
  /\ sessions = {"S1"}
  /\ cache = [c \in ConvIds |-> NoData]
  /\ convState = [c \in ConvIds |-> NoState]
  /\ fetching = [c \in ConvIds |-> FALSE]
  /\ mounted = FALSE
  /\ chatId = ""
  /\ actualSessionId = ""
  /\ isSending = FALSE
  /\ creating = 0
  /\ isConnected = FALSE
  /\ isConnecting = FALSE
  /\ streamingState = EmptyStreaming
  /\ connectionRef = 0
  /\ connectTimer = FALSE
  /\ conns = [i \in ConnIds |-> FreeConn]
  /\ sent = << >>
  /\ errors = 0
  /\ mut = [i \in MutIds |-> IdleMutation]
  /\ store = EmptyStore
  /\ pending = [olderOffset |-> [c \in ConvIds |-> 0],
                sends |-> [i \in StoreSendIds |-> IdleStoreSend]]
  /\ \E h \in ServerHistories : server = [c \in Canon |-> IF c = "S1" THEN h ELSE << >>]

(* StoreSpec: the store's operations on S1 and on one temp chat *)
StoreNext ==
  \/ LoadInitialStart("S1")
  \/ LoadInitialDone("S1")
  \/ LoadInitialFail("S1")
  \/ LoadOlderStart("S1")
  \/ LoadOlderDone("S1")
  \/ LoadOlderFail("S1")
  \/ \E i \in StoreSendIds : \E c \in {"S1", TempChat} : StoreSendStart(i, c)
  \/ \E i \in StoreSendIds : StoreSessionCreated(i)
  \/ \E i \in StoreSendIds : StoreSessionFailed(i)
  \/ \E i \in StoreSendIds : \E complete \in BOOLEAN : \E ts \in {now, MaxTime} :
       StoreSendDone(i, complete, ts)
  \/ \E i \in StoreSendIds : StoreSendFailed(i)

StoreSpec == StoreInit /\ [][StoreNext]_vars

(* FailSpec: the server of S1 never accepts a socket; every socket the     *)
(* browser creates ends with close code 1006, by itself or after the 5 s   *)
(* connection timeout; close events and timers are never withheld forever  *)
FailNext ==
  \/ Mount("S1")
  \/ \E page \in HistPages("S1") : HistoryFetchDone("S1", page)
  \/ ConnectTimerFires
  \/ \E i \in ConnIds : SocketClose(i, 1006)
  \/ \E i \in ConnIds : DetachedClose(i)
  \/ \E i \in ConnIds : ConnectionTimeoutFires(i)
  \/ \E i \in ConnIds : ReconnectTimerFires(i)
  \/ HandleSend

FailSpec ==
  /\ WsInit
  /\ [][FailNext]_vars
  /\ \A i \in ConnIds : WF_vars(SocketClose(i, 1006))
  /\ \A i \in ConnIds : WF_vars(ReconnectTimerFires(i))

(* TempSpec: a brand-new chat: the screen is mounted on the temp id, the   *)
(* first send creates the session, and the conversation goes on under the  *)
(* id the server returned                                                  *)
TempFrames ==
  {Frame("chunk", "A ", "", "", FALSE, "", ""),
   Frame("chunk", "novated ", "M1", "", FALSE, "", ""),
   Frame("complete", "", "M1", "R1", FALSE, "", "")}
TempNext ==
  \/ Mount(TempChat)
  \/ HandleSendTemp
  \/ CreateSessionOk
  \/ CreateSessionFail
  \/ \E c \in Canon : HistoryFetchDone(c, << >>)
  \/ ConnectTimerFires
  \/ \E i \in ConnIds : SocketOpen(i)
  \/ \E f \in TempFrames : DeliverFrame(f)
  \/ HandleSend
  \/ ResetSending

TempSpec == WsInit /\ [][TempNext]_vars

(* EndSpec: conversation S1 until and after the server ends the session;  *)
(* the server accepts every socket                                         *)
SessionEndFrame == Frame("session_end", "", "", "R2", FALSE, "bye", "S1")
EndFrames ==
  {Frame("chunk", "A ", "", "", FALSE, "", ""),
   Frame("complete", "", "M1", "R1", FALSE, "", ""),
   SessionEndFrame,
   Frame("session_end", "", "", "R2", FALSE, "bye", "S2"),
   Frame("session_end", "", "", "", FALSE, "bye", "S1")}
EndNext ==
  \/ Mount("S1")
  \/ HistoryFetchDone("S1", << >>)
  \/ ConnectTimerFires
  \/ \E i \in ConnIds : SocketOpen(i)
  \/ \E i \in ConnIds : DetachedClose(i)
  \/ \E f \in EndFrames : DeliverFrame(f)
  \/ HandleSend
  \/ ResetSending

EndSpec == WsInit /\ [][EndNext]_vars

(* every handler of the WebSocket stack *)
WsNext ==
  \/ Tick
  \/ \E c \in ConvIds : Mount(c)
  \/ Unmount
  \/ \E c \in Canon : \E page \in HistPages(c) : HistoryFetchDone(c, page)
  \/ \E c \in Canon : HistoryFetchFail(c)
  \/ ConnectTimerFires
  \/ \E i \in ConnIds : SocketOpen(i)
  \/ \E i \in ConnIds : \E code \in {1000, 1006} : SocketClose(i, code)
  \/ \E i \in ConnIds : DetachedClose(i)
  \/ \E i \in ConnIds : ConnectionTimeoutFires(i)
  \/ \E i \in ConnIds : ReconnectTimerFires(i)
  \/ \E f \in Frames : DeliverFrame(f)
  \/ DeliverMalformed
  \/ HandleSend
  \/ HandleSendTemp
  \/ CreateSessionOk
  \/ CreateSessionFail
  \/ ResetSending

(* Spec: conversation S1 is opened once and its connection stays up; the    *)
(* stream, the sends and the history response interleave freely             *)
StreamFrames == ChunkFrames \cup CompleteFrames \cup ErrorFrames
Next ==
  \/ Tick
  \/ Mount("S1")
  \/ \E page \in HistPages("S1") : HistoryFetchDone("S1", page)
  \/ HistoryFetchFail("S1")
  \/ ConnectTimerFires
  \/ \E i \in ConnIds : SocketOpen(i)
  \/ \E f \in StreamFrames : DeliverFrame(f)
  \/ HandleSend
  \/ ResetSending

Spec == WsInit /\ [][Next]_vars

(* DeltaSpec: the delta and terminal frames of one conversation against a   *)
(* message list that a send or the history response may or may not have    *)
(* created yet                                                              *)
DeltaFrames == ChunkFrames \cup CompleteFrames
DeltaNext ==
  \/ Mount("S1")
  \/ \E page \in HistPages("S1") : HistoryFetchDone("S1", page)
  \/ HistoryFetchFail("S1")
  \/ ConnectTimerFires
  \/ \E i \in ConnIds : SocketOpen(i)
  \/ \E f \in DeltaFrames : DeliverFrame(f)
  \/ HandleSend
  \/ ResetSending

DeltaSpec == WsInit /\ [][DeltaNext]_vars

(* the server or the network drops a socket that had opened *)
DropOpenSocket(i, code) == conns[i].ws = "OPEN" /\ SocketClose(i, code)

(* ReconnSpec: conversation S1 over a connection that drops: an open socket *)
(* may close, cleanly or not, and reconnect while frames arrive and the     *)
(* user sends; sockets that never open are FailSpec's                       *)
ReconnFrames ==
  {Frame("chunk", "A ", "", "", FALSE, "", ""),
   Frame("complete", "", "M1", "R1", FALSE, "", ""),
   Frame("error", "", "", "", FALSE, "", "")}
ReconnNext ==
  \/ Mount("S1")
  \/ ConnectTimerFires
  \/ \E i \in ConnIds : SocketOpen(i)
  \/ \E i \in ConnIds : \E code \in {1000, 1006} : DropOpenSocket(i, code)
  \/ \E i \in ConnIds : ReconnectTimerFires(i)
  \/ \E f \in ReconnFrames : DeliverFrame(f)
  \/ HandleSend
  \/ ResetSending

ReconnSpec == WsInit /\ [][ReconnNext]_vars

(* ConnSpec: the life of the connections of conversation S1: the screen is *)
(* entered and left, sockets open, fail, time out and close, cleanly or    *)
(* not, reconnect timers fire and the user sends                           *)
ConnNext ==
  \/ Mount("S1")
  \/ Unmount
  \/ ConnectTimerFires
  \/ \E i \in ConnIds : SocketOpen(i)
  \/ \E i \in ConnIds : \E code \in {1000, 1006} : SocketClose(i, code)
  \/ \E i \in ConnIds : DetachedClose(i)
  \/ \E i \in ConnIds : ConnectionTimeoutFires(i)
  \/ \E i \in ConnIds : ReconnectTimerFires(i)
  \/ HandleSend

ConnSpec == WsInit /\ [][ConnNext]_vars

(* SendSpec: sends on conversation S1 against a connection in any of its   *)
(* states: not created yet, connecting, open, closing after the connection *)
(* timeout, waiting for the reconnect timer, closed for good; ws.send may  *)
(* throw                                                                   *)
SendFrames == {Frame("complete", "", "M1", "R1", FALSE, "", "")}
SendNext ==
  \/ Mount("S1")
  \/ ConnectTimerFires
  \/ \E i \in ConnIds : SocketOpen(i)
  \/ \E i \in ConnIds : \E code \in {1000, 1006} : SocketClose(i, code)
  \/ \E i \in ConnIds : DetachedClose(i)
  \/ \E i \in ConnIds : ConnectionTimeoutFires(i)
  \/ \E i \in ConnIds : ReconnectTimerFires(i)
  \/ \E f \in SendFrames : DeliverFrame(f)
  \/ HandleSend
  \/ HandleSendRaises

SendSpec == WsInit /\ [][SendNext]_vars

(* RetrySpec: one instance of S1 over its whole life: each socket may      *)
(* open, fail, run into the 5 s connection timeout or close, cleanly or    *)
(* not, and the reconnect timer fires, while the history of S1 is fetched  *)
RetryNext ==
  \/ Mount("S1")
  \/ \E page \in HistPages("S1") : HistoryFetchDone("S1", page)
  \/ HistoryFetchFail("S1")
  \/ ConnectTimerFires
  \/ \E i \in ConnIds : SocketOpen(i)
  \/ \E i \in ConnIds : \E code \in {1000, 1006} : SocketClose(i, code)
  \/ \E i \in ConnIds : ConnectionTimeoutFires(i)
  \/ \E i \in ConnIds : ReconnectTimerFires(i)

RetrySpec == WsInit /\ [][RetryNext]_vars

(* FirstChatSpec: a visitor without any session opens a brand-new chat:    *)
(* the screen stays mounted on the temp id while createSession is awaited, *)
(* the reset-sending effect may run, and every send the screen accepts is  *)
(* made                                                                    *)
FirstChatInit ==
  /\ now = 0
  /\ sessions = {}
  /\ cache = [c \in ConvIds |-> NoData]
  /\ convState = [c \in ConvIds |-> NoState]
  /\ fetching = [c \in ConvIds |-> FALSE]
  /\ mounted = FALSE
  /\ chatId = ""
  /\ actualSessionId = ""
  /\ isSending = FALSE
  /\ creating = 0
  /\ isConnected = FALSE
  /\ isConnecting = FALSE
  /\ streamingState = EmptyStreaming
  /\ connectionRef = 0
  /\ connectTimer = FALSE
  /\ conns = [i \in ConnIds |-> FreeConn]
  /\ sent = << >>
  /\ errors = 0
  /\ LegacyIdle

FirstChatNext ==
  \/ Mount(TempChat)
  \/ HandleSendTemp
  \/ ResetSending
  \/ CreateSessionOk
  \/ CreateSessionFail
  \/ \E c \in Canon : HistoryFetchDone(c, << >>)
  \/ ConnectTimerFires
  \/ \E i \in ConnIds : SocketOpen(i)
  \/ HandleSend

FirstChatSpec == FirstChatInit /\ [][FirstChatNext]_vars

(* DecodeSpec: conversation S1 over a socket that stays open, on which the *)
(* server sends frames that parse and data that does not                   *)
DecodeNext ==
  \/ Mount("S1")
  \/ \E page \in HistPages("S1") : HistoryFetchDone("S1", page)
  \/ ConnectTimerFires
  \/ \E i \in ConnIds : SocketOpen(i)
  \/ \E f \in ReconnFrames : DeliverFrame(f)
  \/ DeliverMalformed
  \/ HandleSend
  \/ ResetSending

DecodeSpec == WsInit /\ [][DecodeNext]_vars

(* MergeSpec: every writer of the list of S1 interleaved: sends that go    *)
(* out and sends that are rolled back, delta, terminal, error and          *)
(* idle-warning frames, and the history response                           *)
MergeFrames ==
  {Frame("chunk", "A ", "", "", FALSE, "", ""),
   Frame("complete", "", "M1", "R1", FALSE, "", ""),
   Frame("complete", "", "", "R1", FALSE, "", ""),
   Frame("idle_warning", "", "", "R2", FALSE, "bye", "S1"),
   Frame("error", "", "", "", FALSE, "", "")}
MergePages == {<< >>, <<convertApiMessage("M1", "S1", 0, "")>>}
MergeNext ==
  \/ Mount("S1")
  \/ \E page \in MergePages : HistoryFetchDone("S1", page)
  \/ ConnectTimerFires
  \/ \E i \in ConnIds : SocketOpen(i)
  \/ \E f \in MergeFrames : DeliverFrame(f)
  \/ HandleSend
  \/ ResetSending

MergeSpec == WsInit /\ [][MergeNext]_vars

(* AccumSpec: the frames of the replies of S1 in any order over a socket    *)
(* that stays open: fragments with and without a message id, an empty      *)
(* fragment, the terminal frame and the error frame, between sends          *)
AccumFrames ==
  ChunkFrames \cup {Frame("complete", "", "M1", "R1", FALSE, "", "")} \cup ErrorFrames
AccumNext ==
  \/ Mount("S1")
  \/ HistoryFetchDone("S1", << >>)
  \/ ConnectTimerFires
  \/ \E i \in ConnIds : SocketOpen(i)
  \/ \E f \in AccumFrames : DeliverFrame(f)
  \/ HandleSend

AccumSpec == WsInit /\ [][AccumNext]_vars

TypeOK ==
  /\ now \in 0..MaxTime
  /\ connectionRef \in 0..MaxConn
  /\ \A c \in ConvIds : Len(cache[c].messages) <= MaxMsgs

(* ======================================================================= *)
(* Properties                                                              *)
(* ======================================================================= *)
(* the step merges a delta frame that carries text *)
ChunkMerged == \E f \in ChunkFrames : f.chunk # "" /\ DeliverFrame(f)
PlaceholderCount(c) == Cardinality(Placeholders(cache[c].messages))

afterFrame(f) ==
  frameCache(cache[actualSessionId], f, actualSessionId, streamingState, now)
afterFrameTwice(f) ==
  frameCache(afterFrame(f), f, actualSessionId,
             handleWebSocketMessage(f, streamingState), now)
Receiving == mounted /\ CanTransmit /\ cache[actualSessionId].def

(* C2, as stated: in every reachable state, handling the same terminal      *)
(* frame twice gives the same message list (ids, order, contents) as        *)
(* handling it once                                                         *)
C2_TerminalMergeIdempotent ==
  Receiving => \A f \in CompleteFrames :
                 afterFrameTwice(f).messages = afterFrame(f).messages

(* C2, the divergence: the first application stores the streamed text under *)
(* the response id and the second application empties it                    *)
C2_SecondMergeErasesContent ==
  /\ Receiving
  /\ \E f \in CompleteFrames :
       LET once == afterFrame(f).messages
           twice == afterFrameTwice(f).messages
       IN /\ Len(once) = Len(twice)
          /\ \E i \in 1..Len(once) :
               /\ once[i].id = SrvId(f.response_id)
               /\ twice[i].id = SrvId(f.response_id)
               /\ once[i].content # << >>
               /\ twice[i].content = << >>

(* C2, a second divergence: two optimistic user messages are in the list,   *)
(* and the second application gives the second one the same message id      *)
C2_SecondUserRelabelled ==
  /\ Receiving
  /\ \E f \in CompleteFrames :
       /\ NoDupIds(afterFrame(f).messages)
       /\ ~NoDupIds(afterFrameTwice(f).messages)

(* the step is a handleSendMessage call whose transmission fails *)
SendFailed == HandleSend /\ ~CanTransmit

(* C3, as stated: after a send whose transmission fails, the message list   *)
(* equals the list before the send and holds no placeholder                 *)
C3_RollbackRestoresList ==
  [][SendFailed =>
       /\ cache'[actualSessionId].messages = cache[actualSessionId].messages
       /\ PlaceholderCount(actualSessionId)' = 0]_vars

(* C3, amended: after a send whose transmission fails, the message list is  *)
(* the list before the send without its placeholder entries (an empty list  *)
(* is cached when none was), so no placeholder is left and the optimistic   *)
(* user message is gone                                                     *)
C3_RollbackRestoresListWithoutPlaceholders ==
  [][SendFailed =>
       /\ cache'[actualSessionId].def
       /\ cache'[actualSessionId].messages =
            Filter(cache[actualSessionId].messages, NotPlaceholderMsg)
       /\ PlaceholderCount(actualSessionId)' = 0
       /\ TempUserId(now') \notin IdsOf(cache'[actualSessionId].messages)]_vars

(* C3, witness: a first send was transmitted and a delta merged; the        *)
(* connection was then lost and a second send failed: the list is the first *)
(* user message alone while the accumulator still holds the partial text    *)
C3_FailedSendOverStalePlaceholder ==
  /\ mounted /\ ~isSending /\ ~CanTransmit
  /\ now = 2 /\ Len(sent) = 1
  /\ cache["S1"] = Data(<<Msg(TempUserId(1), "S1", <<UserText>>, "user", 1, "")>>)
  /\ streamingState.content = <<"A ">>

(* ----------------------------------------------------------------------- *)
(* C4 -- Promotion atomicity: after a successful promotion of provisional  *)
(* id P to canonical id C no message list remains indexed under P,         *)
(* everything that was indexed under P is indexed under C without loss,    *)
(* and the messages inserted during the same send are indexed under C.     *)
(* ----------------------------------------------------------------------- *)
Promoted(i) ==
  /\ IsTempChat(mut[i].sessionId)
  /\ \E complete \in BOOLEAN : MutateSucceeded(i, complete)

CarriedOver(from, to) ==
  \A j \in 1..Len(from) :
    \E k \in 1..Len(to) : /\ to[k].content = from[j].content
                          /\ to[k].role = from[j].role

C4_PromotionRekeysEverything ==
  [][\A i \in MutIds :
       Promoted(i) =>
         /\ ~cache'[mut[i].sessionId].def
         /\ CarriedOver(cache[mut[i].sessionId].messages,
                        cache'[mut[i].actualSessionId].messages)]_vars

(* the send on the temp chat succeeded: the user's message is still listed *)
(* under the provisional id, and the canonical id holds a user message     *)
(* with no text                                                            *)
C4_PromotedSendLeftUnderProvisionalId ==
  /\ \A i \in MutIds : mut[i].phase = "idle"
  /\ cache[TempChat].def
  /\ \E j \in 1..Len(cache[TempChat].messages) :
       IsTempUserMsg(cache[TempChat].messages[j])
  /\ cache["S2"].def
  /\ Len(cache["S2"].messages) = 2
  /\ cache["S2"].messages[1].role = "user"
  /\ cache["S2"].messages[1].content = << >>
  /\ convState["S2"].def

(* ----------------------------------------------------------------------- *)
(* C5 -- Ordering invariant: after any merge (optimistic insert, initial   *)
(* or older-page history merge, send response) every conversation's       *)
(* message list is non-decreasing in timestamp, whatever timestamps the    *)
(* server assigned.                                                        *)
(* ----------------------------------------------------------------------- *)
C5_ListsSortedByTimestamp ==
  \A c \in ConvIds : Sorted(storeMessages(store, c))

(* an older page was prepended in front of an earlier optimistic message *)
C5_OlderPagePrependedAfterOptimistic ==
  /\ Len(storeMessages(store, "S1")) = 2
  /\ storeMessages(store, "S1")[1].id = SrvId("H1")
  /\ storeMessages(store, "S1")[2].id.k = "temp"
  /\ storeMessages(store, "S1")[1].timestamp > storeMessages(store, "S1")[2].timestamp
  /\ store.isLoadingOlder["S1"] = "false"

(* ----------------------------------------------------------------------- *)
(* C10 -- Scenario D: a history fetch that returns a message whose id is   *)
(* already in memory leaves exactly one copy of it; no history merge ever  *)
(* leaves two messages with the same canonical id in one list.             *)
(* ----------------------------------------------------------------------- *)
C10_NoDuplicateIdsAfterHistoryMerge ==
  \A c \in ConvIds : NoDupIds(storeMessages(store, c))

(* both history requests were made at offset 0 and the older page arrived  *)
(* last: H1 is listed twice                                                *)
C10_OlderPageRepeatsLoadedMessage ==
  /\ store.loadedSessions["S1"] = "true"
  /\ store.isLoadingOlder["S1"] = "false"
  /\ Len(storeMessages(store, "S1")) = 2
  /\ storeMessages(store, "S1")[1].id = SrvId("H1")
  /\ storeMessages(store, "S1")[2].id = SrvId("H1")

(* ----------------------------------------------------------------------- *)
(* C6 -- Reconnection bound: a connection whose every attempt fails to     *)
(* open creates at most 1 + maxReconnectAttempts sockets; once it has      *)
(* reported the "failed after multiple attempts" error it holds no socket  *)
(* and no timer, so it makes no further attempt; it reports that error at  *)
(* most once, and, unless disconnect() is called on it first, it does      *)
(* report it.                                                              *)
(* ----------------------------------------------------------------------- *)
Inert(c) == c.ws = "null" /\ ~c.connectionTimeout /\ ~c.reconnectTimeout

ReconnectionBounded(c) ==
  /\ c.sockets <= maxReconnectAttempts + 1
  /\ c.reconnectAttempts <= maxReconnectAttempts
  /\ c.terminal <= 1
  /\ c.terminal = 1 =>
       /\ Inert(c)
       /\ c.sockets = maxReconnectAttempts + 1
       /\ c.reconnectAttempts = maxReconnectAttempts

Retrying(i) == conns[i].live /\ ~conns[i].isManuallyClosed /\ conns[i].terminal = 0
GaveUpOrDropped(i) ==
  conns[i].terminal = 1 \/ conns[i].isManuallyClosed \/ ~conns[i].live

C6_ReconnectionBound ==
  /\ [](\A i \in ConnIds : ReconnectionBounded(conns[i]))
  /\ \A i \in ConnIds : Retrying(i) ~> GaveUpOrDropped(i)

(* the connection of the mounted screen gave up after six sockets *)
C6_GaveUpAfterMaxAttempts ==
  /\ mounted
  /\ connectionRef # 0
  /\ conns[connectionRef].terminal = 1
  /\ conns[connectionRef].sockets = maxReconnectAttempts + 1
  /\ conns[connectionRef].reconnectAttempts = maxReconnectAttempts
  /\ ~conns[connectionRef].isManuallyClosed
  /\ Inert(conns[connectionRef])
  /\ errors >= 1

(* ----------------------------------------------------------------------- *)
(* C7 -- Scenario A: the user sends on a brand-new provisional             *)
(* conversation and session creation succeeds returning S: the optimistic  *)
(* user message and the placeholder appear under S and the message is      *)
(* transmitted.                                                            *)
(* ----------------------------------------------------------------------- *)
FirstSendPromoted == mounted /\ IsTempChat(chatId) /\ CreateSessionOk

C7_FirstSendShownAndTransmitted ==
  [][FirstSendPromoted =>
       /\ cache'[NewSession].def
       /\ \E j \in 1..Len(cache'[NewSession].messages) :
            /\ IsTempUserMsg(cache'[NewSession].messages[j])
            /\ cache'[NewSession].messages[j].content = <<UserText>>
       /\ PlaceholderCount(NewSession)' = 1
       /\ Len(sent') = Len(sent) + 1]_vars

(* the session was created and the screen moved to it, but the list under  *)
(* the new id is empty, nothing was transmitted and no send is in flight   *)
C7_FirstSendDropped ==
  /\ mounted
  /\ chatId = "S2" /\ actualSessionId = "S2"
  /\ "S2" \in sessions
  /\ creating = 0
  /\ cache["S2"] = Data(<< >>)
  /\ sent = << >>
  /\ ~isSending
  /\ connectionRef = 0

(* ----------------------------------------------------------------------- *)
(* C8 -- Scenario B: an abnormal close in mid-stream and the reconnection  *)
(* that follows leave the accumulator and the stale streaming placeholder  *)
(* as they were.  As stated: they are cleared only by a later terminal     *)
(* frame or a fresh send, and both remain possible.                        *)
(* ----------------------------------------------------------------------- *)
CloseOrReopen ==
  \/ \E i \in ConnIds : \E code \in {1000, 1006} : DropOpenSocket(i, code)
  \/ \E i \in ConnIds : ReconnectTimerFires(i)
  \/ \E i \in ConnIds : SocketOpen(i)

TerminalFrame == Frame("complete", "", "M1", "R1", FALSE, "", "")
ErrorFrame == Frame("error", "", "", "", FALSE, "", "")

AccumulatorCleared == streamingState.content # << >> /\ streamingState'.content = << >>
PlaceholderRemoved ==
  \E c \in ConvIds : PlaceholderCount(c) > 0 /\ PlaceholderCount(c)' = 0

(* a streaming placeholder with partial content is listed and a socket is open *)
StaleStreamOnOpenSocket ==
  /\ mounted /\ CanTransmit
  /\ streamingState.content # << >>
  /\ \E j \in 1..Len(cache[actualSessionId].messages) :
       /\ IsStreamingMsg(cache[actualSessionId].messages[j])
       /\ cache[actualSessionId].messages[j].content = streamingState.content

IsSessionEndMsg(m) == m.kind = "session_end"
Ended(c) == \E j \in 1..Len(cache[c].messages) : IsSessionEndMsg(cache[c].messages[j])

SessionEnds == mounted /\ actualSessionId = "S1" /\ DeliverFrame(SessionEndFrame)
SendAfterEnd == mounted /\ Ended(actualSessionId) /\ HandleSend

C9_SendAfterSessionEndRejected ==
  [][/\ SessionEnds =>
          /\ \E j \in 1..Len(cache'["S1"].messages) :
               /\ cache'["S1"].messages[j].id = SrvId("R2")
               /\ IsSessionEndMsg(cache'["S1"].messages[j])
          /\ convState'["S1"].def /\ convState'["S1"].isComplete
     /\ SendAfterEnd =>
          /\ sent' = sent
          /\ \A j \in 1..Len(cache'[actualSessionId].messages) :
               cache'[actualSessionId].messages[j].id # TempUserId(now')
          /\ PlaceholderCount(actualSessionId)' = 0]_vars

(* the session has ended, yet a later send is in flight: its payload went  *)
(* out and its optimistic message and typing indicator follow R2           *)
C9_SentAfterSessionEnd ==
  /\ mounted /\ isSending
  /\ convState["S1"].def /\ convState["S1"].isComplete
  /\ Len(sent) = 1
  /\ Len(cache["S1"].messages) = 3
  /\ cache["S1"].messages[1].id = SrvId("R2")
  /\ IsSessionEndMsg(cache["S1"].messages[1])
  /\ IsTempUserMsg(cache["S1"].messages[2])
  /\ IsTypingMsg(cache["S1"].messages[3])

(* ======================================================================= *)
(* C11: at most one live connection per conversation                       *)
(* ======================================================================= *)
(* the WebSocketConnection instances of conversation s whose socket is     *)
(* connecting or open                                                      *)
LiveConnections(s) ==
  {i \in ConnIds : conns[i].live /\ conns[i].sid = s
                   /\ conns[i].ws \in {"CONNECTING", "OPEN"}}

(* C11: in every reachable state at most one connecting or open streaming *)
(* connection exists per conversation, across entering, leaving and        *)
(* re-entering the conversation, send-triggered connects, connection       *)
(* timeouts and automatic reconnection                                     *)
C11_AtMostOneLiveConnection ==
  \A s \in Canon : Cardinality(LiveConnections(s)) <= 1

(* the screen of S1 was left with its socket open and entered again: the   *)
(* socket of the screen that is gone and the socket of the screen that is  *)
(* shown are both open                                                     *)
C11_LeakedSocketBesideNewOne ==
  /\ mounted /\ chatId = "S1" /\ connectionRef # 0
  /\ conns[connectionRef].ws = "OPEN" /\ conns[connectionRef].owner
  /\ \E i \in ConnIds :
       /\ i # connectionRef
       /\ conns[i].live /\ conns[i].sid = "S1"
       /\ ~conns[i].owner /\ ~conns[i].isManuallyClosed
       /\ conns[i].ws = "OPEN"

(* ======================================================================= *)
(* C12: connect() while open or connecting                                 *)
(* ======================================================================= *)
(* the connect attempts in flight for conversation s *)
ConnectAttempts(s) ==
  {i \in ConnIds : conns[i].live /\ conns[i].sid = s /\ conns[i].ws = "CONNECTING"}

(* the hook's connect() is called: by the timer of the connect effect or   *)
(* by sendMessage when nothing could be transmitted                        *)
ConnectCalled ==
  \/ ConnectTimerFires
  \/ HandleSend /\ ~CanTransmit /\ ~isConnected /\ ~isConnecting

(* the same calls while the connection the hook holds is open or connecting *)
ConnectCalledOnLiveHandle ==
  /\ ConnectCalled
  /\ connectionRef # 0 /\ conns[connectionRef].ws \in {"OPEN", "CONNECTING"}

(* C12: connect() called while the conversation's connection is open or    *)
(* connecting is a no-op: no new socket, no new timer, no state change, no *)
(* queued second attempt; so at most one connect attempt is in flight per  *)
(* conversation                                                            *)
C12_ConnectWhileLiveIsNoOp ==
  /\ [][\A s \in Canon :
          (mounted /\ actualSessionId = s /\ LiveConnections(s) # {} /\ ConnectCalled)
            => /\ conns' = conns
               /\ connectionRef' = connectionRef
               /\ isConnecting' = isConnecting]_vars
  /\ [](\A s \in Canon : Cardinality(ConnectAttempts(s)) <= 1)

(* what does hold: the call is a no-op when the handle of the calling hook *)
(* is open or connecting                                                   *)
ConnectOnLiveHandleIsNoOp ==
  [][ConnectCalledOnLiveHandle =>
       /\ conns' = conns
       /\ connectionRef' = connectionRef
       /\ isConnecting' = isConnecting]_vars

(* two connect attempts for S1 are in flight: the one the screen that was  *)
(* left started and the one of the screen shown now                        *)
C12_TwoConnectAttemptsInFlight ==
  /\ mounted /\ chatId = "S1" /\ connectionRef # 0
  /\ conns[connectionRef].ws = "CONNECTING"
  /\ \E i \in ConnIds :
       /\ i # connectionRef
       /\ conns[i].live /\ conns[i].sid = "S1" /\ ~conns[i].owner
       /\ conns[i].ws = "CONNECTING"

(* ======================================================================= *)
(* C13: disconnect() is terminal                                           *)
(* ======================================================================= *)
(* disconnect() has been called on instance i *)
Disconnected(i) == conns[i].live /\ conns[i].isManuallyClosed

(* C13: after disconnect() the instance has no pending reconnect or        *)
(* connection-timeout timer, never makes another connection attempt and    *)
(* never surfaces a connectivity error, whatever close, error or timer     *)
(* event is delivered later                                                *)
C13_DisconnectIsTerminal ==
  /\ [](\A i \in ConnIds :
          Disconnected(i) => /\ ~conns[i].reconnectTimeout
                             /\ ~conns[i].connectionTimeout
                             /\ conns[i].ws = "null")
  /\ [][\A i \in ConnIds :
          Disconnected(i) =>
            /\ conns'[i].ws \notin {"CONNECTING", "OPEN"}
            /\ ~conns'[i].reconnectTimeout /\ ~conns'[i].connectionTimeout
            /\ DetachedClose(i) => errors' = errors]_vars

(* the hook has dropped an instance whose retry budget was used up while   *)
(* its last socket was still closing: the close event of that socket is    *)
(* still to come                                                           *)
C13_DisconnectedWithBudgetUsedUp ==
  \E i \in ConnIds :
    /\ Disconnected(i) /\ Owned(i) /\ i # connectionRef
    /\ conns[i].detached > 0
    /\ conns[i].reconnectAttempts = maxReconnectAttempts
    /\ errors < MaxErrors

(* ======================================================================= *)
(* C14: send(payload)                                                      *)
(* ======================================================================= *)
(* after the step the list of the conversation holds the optimistic user   *)
(* message the step created                                                *)
OptimisticKept ==
  \E j \in 1..Len(cache'[actualSessionId].messages) :
    cache'[actualSessionId].messages[j].id = TempUserId(now')

(* C14: a send on a connection that is not open returns false and          *)
(* transmits nothing; on an open connection it returns true exactly when   *)
(* the frame was handed to the transport, and returns false with the error *)
(* observer notified when the transport raised. A false return is seen as  *)
(* the rollback of the optimistic insert and isSending going back to false *)
C14_SendReportsTransmission ==
  [][/\ (HandleSend /\ ~CanTransmit) =>
          /\ sent' = sent
          /\ errors' = errors
          /\ ~isSending'
          /\ ~OptimisticKept
     /\ (HandleSend /\ CanTransmit) =>
          /\ sent' = Append(sent, [session_id |-> actualSessionId, message |-> UserText])
          /\ errors' = errors
          /\ isSending'
          /\ OptimisticKept
     /\ HandleSendRaises =>
          /\ sent' = sent
          /\ errors' = Bump(errors)
          /\ ~isSending'
          /\ ~OptimisticKept]_vars

(* the first send on S1 found the socket open and ws.send threw: nothing   *)
(* was transmitted, the error observer ran once, the insert was rolled     *)
(* back to an empty list and the socket is still open                      *)
C14_SendRaisedOnOpenSocket ==
  /\ mounted /\ CanTransmit /\ ~isSending /\ ~isConnected
  /\ now = 1 /\ errors = 1 /\ sent = << >>
  /\ cache["S1"].def /\ cache["S1"].messages = << >>

(* ======================================================================= *)
(* C15: what a close event does                                            *)
(* ======================================================================= *)
(* the step leaves a reconnect timer armed on instance i *)
ReconnectScheduled(i) == conns'[i].live /\ conns'[i].reconnectTimeout

(* the step ran the error observer of the mounted screen *)
ErrorSurfaced == errors' # errors

(* C15: on every close event a reconnection is scheduled if and only if    *)
(* the close was not caused by disconnect(), was not a normal closure and  *)
(* the attempt counter is below the maximum; the terminal connectivity     *)
(* error is surfaced only when the budget is used up after an abnormal     *)
(* close that disconnect() did not cause                                   *)
C15_CloseEventDecision ==
  [][\A i \in ConnIds :
       /\ \A code \in {1000, 1006} :
            SocketClose(i, code) =>
              /\ ReconnectScheduled(i) <=>
                   (/\ ~conns[i].isManuallyClosed
                    /\ code # 1000
                    /\ conns[i].reconnectAttempts < maxReconnectAttempts)
              /\ ErrorSurfaced =>
                   (/\ ~conns[i].isManuallyClosed
                    /\ code # 1000
                    /\ conns[i].reconnectAttempts >= maxReconnectAttempts)
       /\ DetachedClose(i) =>
            /\ ReconnectScheduled(i) <=>
                 (/\ ~conns[i].isManuallyClosed
                  /\ conns[i].reconnectAttempts < maxReconnectAttempts)
            /\ ErrorSurfaced =>
                 (/\ ~conns[i].isManuallyClosed
                  /\ conns[i].reconnectAttempts >= maxReconnectAttempts)]_vars

(* the same without the observer: which close events schedule a reconnect *)
CloseEventSchedules ==
  [][\A i \in ConnIds :
       /\ \A code \in {1000, 1006} :
            SocketClose(i, code) =>
              (ReconnectScheduled(i) <=>
                 (/\ ~conns[i].isManuallyClosed
                  /\ code # 1000
                  /\ conns[i].reconnectAttempts < maxReconnectAttempts))
       /\ DetachedClose(i) => ~ReconnectScheduled(i)]_vars

(* the close event of a socket that disconnect() dropped is about to be    *)
(* handled with the counter at the maximum, while the connection that      *)
(* replaced it is being set up: onclose will take its terminal branch      *)
C15_ManualCloseTakesTerminalBranch ==
  /\ mounted /\ connectionRef # 0 /\ isConnecting
  /\ conns[connectionRef].ws = "CONNECTING"
  /\ errors < MaxErrors
  /\ \E i \in ConnIds :
       /\ i # connectionRef /\ conns[i].live /\ conns[i].owner
       /\ conns[i].isManuallyClosed /\ conns[i].detached > 0
       /\ reportsTerminal(conns[i], 1006)

(* ======================================================================= *)
(* C16: linear backoff                                                     *)
(* ======================================================================= *)
(* the step arms the reconnect timer of instance i *)
ReconnectArmed(i) ==
  /\ conns[i].live /\ ~conns[i].reconnectTimeout
  /\ conns'[i].live /\ conns'[i].reconnectTimeout

(* C16: the k-th consecutive reconnection since the last successful open   *)
(* (k = 1..max) is scheduled with delay reconnectDelay * k, the counter    *)
(* being incremented before the delay is computed: the counter is 0 while  *)
(* a socket is open, every scheduling step adds one to it and uses the new *)
(* value for the delay, and an armed timer carries reconnectDelay times    *)
(* the counter                                                             *)
C16_LinearBackoff ==
  /\ [](\A i \in ConnIds :
          /\ (conns[i].live /\ conns[i].ws = "OPEN") => conns[i].reconnectAttempts = 0
          /\ (conns[i].live /\ conns[i].reconnectTimeout) =>
               /\ conns[i].reconnectAttempts \in 1..maxReconnectAttempts
               /\ conns[i].delay = reconnectDelay * conns[i].reconnectAttempts)
  /\ [][\A i \in ConnIds :
          ReconnectArmed(i) =>
            /\ conns'[i].reconnectAttempts = conns[i].reconnectAttempts + 1
            /\ conns'[i].delay = reconnectDelay * (conns[i].reconnectAttempts + 1)]_vars

(* the fifth reconnection in a row is scheduled, five seconds ahead *)
C16_FifthReconnectScheduled ==
  \E i \in ConnIds :
    /\ conns[i].live /\ conns[i].reconnectTimeout
    /\ conns[i].sockets = maxReconnectAttempts
    /\ conns[i].delay = 5 * reconnectDelay

(* ======================================================================= *)
(* C17: the attempt counter                                                *)
(* ======================================================================= *)
(* the counter of every instance lies between 0 and the maximum *)
CounterInRange ==
  \A i \in ConnIds : conns[i].reconnectAttempts \in 0..maxReconnectAttempts

(* C17 as stated: the counter is reset to zero on every successful open,   *)
(* incremented on every abnormal close that disconnect() did not cause,    *)
(* and lies between 0 and the configured maximum in every reachable state  *)
C17_CounterIncrementedOnEveryAbnormalClose ==
  /\ []CounterInRange
  /\ [][\A i \in ConnIds :
          /\ SocketOpen(i) => conns'[i].reconnectAttempts = 0
          /\ (SocketClose(i, 1006) /\ ~conns[i].isManuallyClosed) =>
               conns'[i].reconnectAttempts = conns[i].reconnectAttempts + 1]_vars

(* C17: the counter is reset to zero on every successful open; an abnormal *)
(* close that disconnect() did not cause increments it when it is below    *)
(* the maximum and leaves it at the maximum otherwise; a normal closure    *)
(* leaves it alone; it lies between 0 and the maximum in every reachable   *)
(* state                                                                   *)
C17_CounterIncrementedBelowMaximum ==
  /\ []CounterInRange
  /\ [][\A i \in ConnIds :
          /\ SocketOpen(i) => conns'[i].reconnectAttempts = 0
          /\ (SocketClose(i, 1006) /\ ~conns[i].isManuallyClosed) =>
               conns'[i].reconnectAttempts =
                 IF conns[i].reconnectAttempts < maxReconnectAttempts
                 THEN conns[i].reconnectAttempts + 1
                 ELSE maxReconnectAttempts
          /\ SocketClose(i, 1000) =>
               conns'[i].reconnectAttempts = conns[i].reconnectAttempts]_vars

(* the last socket of the budget ran into the connection timeout and then  *)
(* closed abnormally with the counter at the maximum: the counter stayed,  *)
(* and the timeout and the terminal error were both reported               *)
C17_CounterStaysAtMaximum ==
  /\ mounted /\ connectionRef # 0
  /\ conns[connectionRef].reconnectAttempts = maxReconnectAttempts
  /\ conns[connectionRef].ws = "null"
  /\ conns[connectionRef].delay = 0
  /\ conns[connectionRef].terminal = 1
  /\ errors = 2

(* ======================================================================= *)
(* C18: the connection-establishment timeout                               *)
(* ======================================================================= *)
(* the connection timeout of an instance is armed only while its socket is *)
(* connecting: onopen, onerror, onclose and disconnect() cancel it         *)
TimeoutOnlyWhileConnecting ==
  \A i \in ConnIds :
    (conns[i].live /\ conns[i].connectionTimeout) => conns[i].ws = "CONNECTING"

(* the close event of a socket the timeout closed can always be delivered  *)
ClosingSocketCloses ==
  \A i \in ConnIds :
    (conns[i].live /\ conns[i].ws = "CLOSING") => ENABLED SocketClose(i, 1006)

(* C18: if the timeout fires while the socket is still connecting, the     *)
(* handle is closed and an error is surfaced to the error observer, and    *)
(* the close event that follows is handled as a failed attempt by the      *)
(* reconnection logic; if the socket opened, errored or closed before, the *)
(* timer is cancelled and closes no socket and surfaces no error           *)
C18_ConnectionTimeout ==
  /\ []TimeoutOnlyWhileConnecting
  /\ []ClosingSocketCloses
  /\ [][\A i \in ConnIds :
          /\ (ConnectionTimeoutFires(i) /\ conns[i].ws = "CONNECTING") =>
               /\ conns'[i].ws = "CLOSING"
               /\ ~conns'[i].connectionTimeout
               /\ Owned(i) => (errors' = Bump(errors) /\ ~isConnecting' /\ ~isSending')
          /\ (ConnectionTimeoutFires(i) /\ conns[i].ws # "CONNECTING") =>
               /\ conns'[i].ws = conns[i].ws
               /\ errors' = errors
          /\ (SocketClose(i, 1006) /\ conns[i].ws = "CLOSING"
                /\ ~conns[i].isManuallyClosed) =>
               IF conns[i].reconnectAttempts < maxReconnectAttempts
               THEN /\ conns'[i].reconnectTimeout
                    /\ conns'[i].reconnectAttempts = conns[i].reconnectAttempts + 1
               ELSE /\ ~conns'[i].reconnectTimeout
                    /\ Owned(i) => errors' = Bump(errors)]_vars

(* the first socket of S1 ran into the timeout: it is closing, its timer   *)
(* is gone, the observer has run once and no reconnect is scheduled yet    *)
C18_TimedOutWhileConnecting ==
  /\ mounted /\ connectionRef # 0
  /\ conns[connectionRef].ws = "CLOSING"
  /\ ~conns[connectionRef].connectionTimeout
  /\ ~conns[connectionRef].reconnectTimeout
  /\ conns[connectionRef].sockets = 1
  /\ errors = 1 /\ ~isConnecting /\ ~isConnected

(* ======================================================================= *)
(* C19: the history response and an optimistic message                     *)
(* ======================================================================= *)
(* a message the client put in the list and the server has not yet         *)
(* acknowledged: the optimistic user message or a placeholder              *)
IsUnacknowledged(m) == IsTempUserMsg(m) \/ IsPlaceholderMsg(m)

(* every unacknowledged message of list before is in list after *)
KeepsUnacknowledged(before, after) ==
  \A j \in 1..Len(before) :
    IsUnacknowledged(before[j]) =>
      \E k \in 1..Len(after) : after[k].id = before[j].id

(* C19: when a history response is applied to a conversation whose list    *)
(* holds an optimistic user message or a placeholder the server has not    *)
(* acknowledged, that message is still in the list afterwards, whatever    *)
(* the order of fetch start, send and fetch completion                     *)
C19_HistoryMergeKeepsOptimistic ==
  [][\A c \in Canon : \A page \in HistPages(c) :
       HistoryFetchDone(c, page) =>
         KeepsUnacknowledged(cache[c].messages, cache'[c].messages)]_vars

(* the send on S1 went out and is awaiting its reply, the history fetch    *)
(* that was started before it has completed, and the list is empty: the    *)
(* optimistic user message and the typing indicator are gone               *)
C19_OptimisticMessageOverwritten ==
  /\ mounted /\ isSending /\ ~fetching["S1"]
  /\ Len(sent) = 1
  /\ streamingState = EmptyStreaming
  /\ cache["S1"].def /\ cache["S1"].messages = << >>

(* ======================================================================= *)
(* C20: one send in flight per conversation                                *)
(* ======================================================================= *)
(* C20: send(text) is a no-op while a send is in flight for the            *)
(* conversation, the await of createSession on a provisional conversation  *)
(* included: while one session creation is awaited the screen starts no    *)
(* second one, so at most one is in flight, and a send is accepted only    *)
(* when none is                                                            *)
C20_OneSendInFlight ==
  /\ [](creating <= 1)
  /\ [][(HandleSendTemp \/ HandleSend) => creating = 0]_vars

(* the screen is still on the temp id and two createSession calls are      *)
(* awaited: the reset-sending effect cleared isSending during the first    *)
(* await and a second send was accepted                                    *)
C20_TwoSessionCreationsInFlight ==
  /\ mounted /\ IsTempChat(chatId) /\ actualSessionId = chatId
  /\ isSending
  /\ creating = 2
  /\ sessions = {}


(* ======================================================================= *)
(* C21: session creation fails during a send on a provisional conversation *)
(* ======================================================================= *)
(* the step is the failure of createSession inside send mutation i *)
CreationFailed(i) == mut[i].phase = "creating" /\ MutateFailed(i)

(* nothing of the send that used optimisticUserMessageId is listed under c *)
NothingLeftBehind(c, optimisticUserMessageId) ==
  /\ optimisticUserMessageId \notin IdsOf(cache'[c].messages)
  /\ Placeholders(cache'[c].messages) = {}

(* handleSendMessage's catch of a failed createSession: nothing is written, *)
(* the screen stays on the temp id and the in-flight flag is cleared        *)
ScreenAbortsOnFailedCreation ==
  [][CreateSessionFail =>
       /\ UNCHANGED <<cache, convState, sessions, chatId, actualSessionId, sent>>
       /\ mounted => ~isSending']_vars

(* C21: when createSession fails during a send on a provisional            *)
(* conversation the send is aborted, no session exists afterwards that did *)
(* not exist before (the conversation stays provisional), and the          *)
(* optimistic message of the send and any placeholder are listed neither   *)
(* under the provisional id nor under a canonical id                       *)
C21_FailedCreationLeavesNothing ==
  [][\A i \in MutIds :
       CreationFailed(i) =>
         /\ sessions' = sessions
         /\ mut'[i].phase = "idle"
         /\ \A c \in ConvIds :
              NothingLeftBehind(c, mut[i].optimisticUserMessageId)]_vars

(* createSession failed for a send on the temp chat whose list had not     *)
(* been cached: no session was created, the mutation is over, and the      *)
(* optimistic user message is still listed under the provisional id        *)
C21_OptimisticMessageLeftAfterFailure ==
  /\ \A i \in MutIds : mut[i].phase = "idle"
  /\ sessions = {"S1"}
  /\ cache[TempChat].def
  /\ \E j \in 1..Len(cache[TempChat].messages) :
       IsTempUserMsg(cache[TempChat].messages[j])
  /\ \A c \in Canon : ~cache[c].def


(* ======================================================================= *)
(* C22: one canonical id per provisional id                                *)
(* ======================================================================= *)
(* C22: at most one canonical id is ever created for a provisional id:     *)
(* whatever the interleaving of sends on the provisional conversation, a   *)
(* session is created for it at most once (the visitor starts without      *)
(* sessions and opens one provisional conversation, so every session that  *)
(* exists was created for it), and no createSession resolves for it when   *)
(* it has been promoted already                                            *)
C22_OneCanonicalIdPerProvisionalId ==
  /\ [](Cardinality(sessions) <= 1)
  /\ [][CreateSessionOk => sessions = {}]_vars

(* both createSession calls made for the one provisional conversation have *)
(* resolved: two sessions exist and the screen shows the second            *)
C22_TwoSessionsForOneProvisionalId ==
  /\ sessions = {"S1", "S2"}
  /\ creating = 0
  /\ mounted /\ chatId = "S2" /\ actualSessionId = "S2"


(* ======================================================================= *)
(* C23: the session-end event is terminal for the conversation             *)
(* ======================================================================= *)
(* the step handles a session_end frame addressed to conversation s, which *)
(* the screen shows                                                        *)
SessionEndReceived(s) ==
  /\ mounted /\ actualSessionId = s
  /\ \E f \in EndFrames :
       f.type = "session_end" /\ FrameAccepted(f, s) /\ DeliverFrame(f)

(* the payloads transmitted for conversation s *)
SentFor(s) == {j \in 1..Len(sent) : sent[j].session_id = s}

(* C23: receiving a session-end event for conversation S disconnects the   *)
(* connection of S and leaves the connections of other conversations as    *)
(* they were; once the session-end message is in the list of S no frame is *)
(* transmitted for S and no new connection to S is opened, not even by a   *)
(* later send                                                              *)
C23_SessionEndIsTerminal ==
  [][\A s \in Canon :
       /\ SessionEndReceived(s) =>
            /\ LiveConnections(s)' = {}
            /\ connectionRef' = 0
            /\ \A i \in ConnIds :
                 (conns[i].live /\ i # connectionRef) => conns'[i] = conns[i]
       /\ Ended(s) =>
            /\ SentFor(s)' = SentFor(s)
            /\ LiveConnections(s)' \subseteq LiveConnections(s)]_vars

(* the session of S1 has ended and nothing was transmitted since, yet the  *)
(* hook holds a new connection to S1 that a send opened                    *)
C23_ConnectionOpenedAfterSessionEnd ==
  /\ mounted /\ actualSessionId = "S1"
  /\ Ended("S1")
  /\ sent = << >>
  /\ connectionRef # 0
  /\ conns[connectionRef].sid = "S1"
  /\ conns[connectionRef].ws = "CONNECTING"


(* what does hold: the event itself disconnects the connection of S and    *)
(* touches no other instance                                               *)
SessionEndDisconnects ==
  [][\A s \in Canon :
       SessionEndReceived(s) =>
         /\ LiveConnections(s)' = {}
         /\ connectionRef' = 0
         /\ \A i \in ConnIds :
              (conns[i].live /\ i # connectionRef) => conns'[i] = conns[i]]_vars


(* ======================================================================= *)
(* C24: connect on activation, disconnect on deactivation                  *)
(* ======================================================================= *)
(* the instances of conversation s that are open, connecting or waiting    *)
(* for their reconnect timer                                               *)
ActiveConnections(s) ==
  {i \in ConnIds : /\ conns[i].live /\ conns[i].sid = s
                   /\ \/ conns[i].ws \in {"CONNECTING", "OPEN"}
                      \/ conns[i].reconnectTimeout}

(* C24: the connection of a canonical conversation is set up when the      *)
(* conversation becomes active (the connect effect arms its timer, and the *)
(* timer creates a connecting instance for the conversation) and is torn   *)
(* down when it becomes inactive: after the screen is left, and as long as *)
(* no screen is shown, no instance of the conversation is open, connecting *)
(* or scheduled to reconnect                                               *)
C24_ConnectedWhileActiveOnly ==
  /\ [][/\ Mount("S1") => connectTimer'
        /\ (ConnectTimerFires /\ connectionRef = 0) =>
             (connectionRef' # 0 /\ connectionRef' \in ConnectAttempts(actualSessionId)')
        /\ Unmount => \A s \in Canon : ActiveConnections(s)' = {}]_vars
  /\ [](~mounted => \A s \in Canon : ActiveConnections(s) = {})

(* no screen is shown, and the socket the screen of S1 had opened is still *)
(* open: nobody closed it                                                  *)
C24_SocketOpenAfterScreenLeft ==
  /\ ~mounted /\ connectionRef = 0
  /\ \E i \in ConnIds :
       /\ conns[i].live /\ conns[i].sid = "S1"
       /\ ~conns[i].owner /\ ~conns[i].isManuallyClosed
       /\ conns[i].ws = "OPEN"


(* what does hold: the connection is set up on activation *)
ConnectsOnActivation ==
  [][/\ Mount("S1") => connectTimer'
     /\ (ConnectTimerFires /\ connectionRef = 0) =>
          (connectionRef' # 0 /\ connectionRef' \in ConnectAttempts(actualSessionId)')]_vars


(* ======================================================================= *)
(* C25: a placeholder is never persisted                                   *)
(* ======================================================================= *)
(* the step ends the streaming attempt of the conversation shown: a        *)
(* terminal frame, with or without its ids, a server error frame, or a     *)
(* send that could not be transmitted                                      *)
AttemptEnds ==
  \/ \E f \in CompleteFrames \cup ErrorFrames : DeliverFrame(f)
  \/ HandleSend /\ ~CanTransmit

(* C25: a placeholder is never persisted: when the attempt of a send ends, *)
(* by a terminal frame, a terminal frame lacking ids, a server error frame *)
(* or a failed transmission, the list of the conversation holds no typing  *)
(* indicator and no streaming entry                                        *)
C25_PlaceholderGoneWhenAttemptEnds ==
  [][AttemptEnds => PlaceholderCount(actualSessionId)' = 0]_vars

(* a terminal frame without ids has ended the attempt: the accumulator is  *)
(* empty again, the streaming entry with the text received so far is still *)
(* listed, and the send is still marked in flight                          *)
C25_StreamingEntryLeftAfterTerminalFrame ==
  /\ mounted /\ isSending
  /\ streamingState = EmptyStreaming
  /\ \E j \in 1..Len(cache["S1"].messages) :
       /\ IsStreamingMsg(cache["S1"].messages[j])
       /\ cache["S1"].messages[j].content # << >>
  /\ ~ENABLED ResetSending


(* what does hold: a terminal frame that carries both ids and a send that  *)
(* could not be transmitted leave no placeholder                           *)
PlaceholderGoneAfterMergeOrRollback ==
  [][(\/ \E f \in CompleteFrames : FrameAccepted(f, actualSessionId) /\ DeliverFrame(f)
      \/ HandleSend /\ ~CanTransmit)
       => PlaceholderCount(actualSessionId)' = 0]_vars


(* ======================================================================= *)
(* C26: a server-declared error frame ends the streaming attempt           *)
(* ======================================================================= *)
(* the step handles a frame of type "error" *)
ErrorFrameHandled == \E f \in ErrorFrames : DeliverFrame(f)

(* C26: a server-declared error frame is a terminal event of the current   *)
(* streaming attempt: after it is handled the accumulator is empty, the    *)
(* error observer has been called, and the list of the conversation holds  *)
(* no typing indicator and no streaming entry                              *)
C26_ErrorFrameEndsAttempt ==
  [][ErrorFrameHandled =>
       /\ streamingState' = EmptyStreaming
       /\ errors' = Bump(errors)
       /\ PlaceholderCount(actualSessionId)' = 0]_vars

(* what does hold: the accumulator is reset, the observer is called and    *)
(* the send is no longer marked in flight                                  *)
ErrorFrameResetsAndReports ==
  [][ErrorFrameHandled =>
       /\ streamingState' = EmptyStreaming
       /\ errors' = Bump(errors)
       /\ ~isSending']_vars

(* the error frame was handled over the open socket: the observer was      *)
(* called, the send is not in flight, the accumulator is empty, and the    *)
(* typing indicator of the send is still listed                            *)
C26_TypingIndicatorLeftAfterErrorFrame ==
  /\ mounted /\ ~isSending /\ isConnected
  /\ errors > 0
  /\ streamingState = EmptyStreaming
  /\ \E j \in 1..Len(cache["S1"].messages) : IsTypingMsg(cache["S1"].messages[j])


(* ======================================================================= *)
(* C27: a malformed inbound frame                                          *)
(* ======================================================================= *)
(* C27: an inbound frame that cannot be decoded is dropped silently: it is *)
(* not reported to the screen and does not abort the stream; the           *)
(* accumulator, the message lists, the in-flight flag of the send, the     *)
(* connection and the exposed isConnected flag are as they were            *)
C27_MalformedFrameDropped ==
  [][DeliverMalformed =>
       UNCHANGED <<streamingState, cache, convState, isSending, conns,
                   connectionRef, isConnected, isConnecting, errors>>]_vars

(* what does hold: the accumulator, the lists and the connection are as    *)
(* they were                                                               *)
MalformedFrameKeepsStream ==
  [][DeliverMalformed =>
       UNCHANGED <<streamingState, cache, convState, conns, connectionRef>>]_vars

(* data that did not parse arrived while a send was in flight: the socket  *)
(* is still open, but the hook reports it as not connected, the observer   *)
(* was called and the send is no longer marked in flight although its      *)
(* typing indicator is listed                                              *)
C27_ReportedDisconnectedOnOpenSocket ==
  /\ mounted /\ CanTransmit
  /\ ~isConnected /\ ~isSending
  /\ errors > 0
  /\ \E j \in 1..Len(cache["S1"].messages) : IsTypingMsg(cache["S1"].messages[j])


(* ======================================================================= *)
(* C28: connectivity events and message state                              *)
(* ======================================================================= *)
(* the step is a connectivity event: a socket opens, a socket closes       *)
(* (which schedules a reconnection or, with the retries exhausted, reports *)
(* the terminal error), the connection timeout fires, or the reconnect     *)
(* timer fires                                                             *)
ConnectivityEvent ==
  \E i \in ConnIds :
    \/ SocketOpen(i)
    \/ \E code \in {1000, 1006} : SocketClose(i, code)
    \/ DetachedClose(i)
    \/ ConnectionTimeoutFires(i)
    \/ ReconnectTimerFires(i)

(* C28: connectivity events do not corrupt message state: connection open, *)
(* close, error, connection timeout, reconnection scheduling and retry     *)
(* exhaustion leave the message list and the derived state (needsInfo,     *)
(* isComplete, suggestions) of every conversation unchanged                *)
C28_ConnectivityKeepsMessageState ==
  [][ConnectivityEvent => UNCHANGED <<cache, convState>>]_vars

(* a send went out, the socket was lost and every retry failed: the        *)
(* terminal error was reported and the list still holds the user message   *)
(* and the typing indicator of the send                                    *)
C28_ListKeptThroughRetryExhaustion ==
  /\ mounted /\ connectionRef # 0
  /\ conns[connectionRef].terminal > 0
  /\ conns[connectionRef].reconnectAttempts = maxReconnectAttempts
  /\ Len(sent) > 0
  /\ cache["S1"].def
  /\ \E j \in 1..Len(cache["S1"].messages) : IsTempUserMsg(cache["S1"].messages[j])
  /\ \E j \in 1..Len(cache["S1"].messages) : IsTypingMsg(cache["S1"].messages[j])


(* ======================================================================= *)
(* C29: at most one placeholder per list                                   *)
(* ======================================================================= *)
(* C29: in every reachable state, under any interleaving of optimistic     *)
(* insert, delta merge, terminal merge, out-of-band merge, history merge   *)
(* and rollback, the message list of a conversation holds at most one      *)
(* placeholder entry (typing indicator or in-progress streaming message)   *)
C29_AtMostOnePlaceholder ==
  \A c \in ConvIds : PlaceholderCount(c) <= 1

(* a second send was made over the typing indicator an error frame had     *)
(* left behind: both user messages are listed with one typing indicator    *)
C29_SecondSendOverLeftoverPlaceholder ==
  /\ mounted /\ isSending /\ errors > 0
  /\ Len(cache["S1"].messages) = 3
  /\ IsTempUserMsg(cache["S1"].messages[1])
  /\ IsTempUserMsg(cache["S1"].messages[2])
  /\ IsTypingMsg(cache["S1"].messages[3])


(* ======================================================================= *)
(* C30: the accumulator is append-only between reset points                *)
(* ======================================================================= *)
(* a is a prefix of b *)
IsPrefix(a, b) == Len(a) <= Len(b) /\ SubSeq(b, 1, Len(a)) = a

(* the step is a reset point of the accumulator: a terminal frame, an      *)
(* error frame, a send that went out, or the end of the hook's connection  *)
(* with the screen                                                         *)
ResetPoint ==
  \/ \E f \in CompleteFrames \cup ErrorFrames : DeliverFrame(f)
  \/ HandleSend /\ CanTransmit
  \/ Unmount

(* the streaming entry of conversation c in the next state carries text    *)
StreamingEntryCarries(c, text) ==
  \E j \in 1..Len(cache'[c].messages) :
    /\ IsStreamingMsg(cache'[c].messages[j])
    /\ cache'[c].messages[j].content = text

(* C30: between reset points (terminal frame, error frame, successful send *)
(* of a new message, disconnect) the buffered content of the accumulator   *)
(* only grows: every accepted delta frame makes the new buffer the old     *)
(* buffer followed by the fragment, in the order the frames arrive, and    *)
(* the chunk callback is given the whole buffered content so far, which it *)
(* writes into the streaming entry of a cached list                        *)
C30_AccumulatorAppendOnly ==
  [][/\ IsPrefix(streamingState.content, streamingState'.content) \/ ResetPoint
     /\ \A f \in ChunkFrames :
          (f.chunk # "" /\ DeliverFrame(f)) =>
            /\ streamingState'.content = Append(streamingState.content, f.chunk)
            /\ cache[actualSessionId].def =>
                 StreamingEntryCarries(actualSessionId, streamingState'.content)]_vars

(* two different fragments arrived, the one with the message id first: the *)
(* buffer and the streaming entry hold them in that order                  *)
C30_FragmentsInArrivalOrder ==
  /\ mounted /\ isSending
  /\ streamingState = [content |-> <<"novated ", "A ">>, messageId |-> "M1"]
  /\ \E j \in 1..Len(cache["S1"].messages) :
       /\ IsStreamingMsg(cache["S1"].messages[j])
       /\ cache["S1"].messages[j].content = <<"novated ", "A ">>


(* ======================================================================= *)
(* C31: frames without their required fields                               *)
(* ======================================================================= *)
(* the fields handleWebSocketMessage requires of a frame of each type *)
RequiredFieldsPresent(f) ==
  CASE f.type = "chunk" -> f.chunk # ""
    [] f.type = "complete" -> f.message_id # "" /\ f.response_id # ""
    [] f.type \in {"idle_warning", "session_end"} ->
         f.message # "" /\ f.session_id # "" /\ f.response_id # ""
    [] f.type = "error" -> TRUE
    [] OTHER -> FALSE

(* C31: an inbound frame whose required fields are absent (a chunk frame   *)
(* without a fragment, a complete frame without message_id or response_id, *)
(* an out-of-band frame without message, session_id or response_id) or     *)
(* whose type is not recognised is dropped: the accumulator is the one     *)
(* passed in and no callback runs, so the lists, the derived state and the *)
(* error count are as they were                                            *)
C31_IncompleteFrameDropped ==
  [][\A f \in Frames :
       (~RequiredFieldsPresent(f) /\ DeliverFrame(f)) =>
         /\ streamingState' = streamingState
         /\ UNCHANGED <<cache, convState, errors, isSending>>]_vars

(* what does hold: no callback runs for such a frame *)
IncompleteFrameRunsNoCallback ==
  [][\A f \in Frames :
       (~RequiredFieldsPresent(f) /\ DeliverFrame(f)) =>
         UNCHANGED <<cache, convState, errors, isSending>>]_vars

(* a complete frame without an id arrived after two fragments: no terminal *)
(* merge was made and no error was reported, the streaming entry still     *)
(* shows both fragments, and the accumulator has lost them                 *)
C31_AccumulatorLostWithoutMerge ==
  /\ mounted /\ errors = 0
  /\ convState["S1"] = NoState
  /\ streamingState = EmptyStreaming
  /\ \E j \in 1..Len(cache["S1"].messages) :
       /\ IsStreamingMsg(cache["S1"].messages[j])
       /\ cache["S1"].messages[j].content = <<"A ", "novated ">>


(* ======================================================================= *)
(* C32: the terminal merge relabels the user message of its own send       *)
(* ======================================================================= *)
(* the local ids of the provisional user messages listed in s *)
TempUserIds(s) == {s[j].id : j \in {k \in 1..Len(s) : IsTempUserMsg(s[k])}}

(* the local id of the most recent provisional user message in s *)
LatestTempUserId(s) ==
  CHOOSE id \in TempUserIds(s) : \A other \in TempUserIds(s) : other.n <= id.n

(* the step merges a terminal frame that carries both ids into a cached    *)
(* list of the conversation shown that holds a provisional user message    *)
TerminalMergeRelabels ==
  /\ mounted /\ actualSessionId \in Canon
  /\ cache[actualSessionId].def
  /\ TempUserIds(cache[actualSessionId].messages) # {}
  /\ \E f \in CompleteFrames : FrameAccepted(f, actualSessionId) /\ DeliverFrame(f)

(* C32: a terminal merge that carries a message id relabels exactly the    *)
(* provisional user message of the send it answers, the most recent one,   *)
(* and leaves the id of every other message as it was, so that no two      *)
(* messages of the list share an id afterwards, even when several          *)
(* provisional user messages are listed                                    *)
C32_RelabelsMostRecentUserMessage ==
  [][TerminalMergeRelabels =>
       LET before == cache[actualSessionId].messages
           after == cache'[actualSessionId].messages
       IN /\ TempUserIds(after) = TempUserIds(before) \ {LatestTempUserId(before)}
          /\ NoDupIds(after)]_vars

(* the reply to the second send was merged while the user message of the   *)
(* first was still provisional: the first message carries the server id    *)
(* and the second, which the reply answers, is still provisional           *)
C32_EarlierUserMessageRelabelled ==
  /\ Len(cache["S1"].messages) = 3
  /\ cache["S1"].messages[1].id = SrvId("M1")
  /\ cache["S1"].messages[1].role = "user"
  /\ cache["S1"].messages[1].timestamp = 1
  /\ cache["S1"].messages[2].id = TempUserId(2)
  /\ cache["S1"].messages[3].id = SrvId("R1")


(* OobSpec: conversation S1 with its socket, the out-of-band events, a      *)
(* terminal event, the history query and the send mutation, all writing    *)
(* the same cached list                                                     *)
OobSpecFrames ==
  {Frame("idle_warning", "", "", "R2", FALSE, "bye", "S1"),
   Frame("idle_warning", "", "", "", FALSE, "bye", "S1"),
   Frame("idle_warning", "", "", "R2", FALSE, "bye", "S2"),
   SessionEndFrame,
   Frame("complete", "", "M1", "R1", FALSE, "", "")}
OobNext ==
  \/ Mount("S1")
  \/ \E page \in {<< >>,
                   <<convertApiMessage("M1", "S1", 2, ""),
                     convertApiMessage("R2", "S1", 2, "session_end")>>} :
       HistoryFetchDone("S1", page)
  \/ ConnectTimerFires
  \/ \E i \in ConnIds : SocketOpen(i)
  \/ \E f \in OobSpecFrames : DeliverFrame(f)
  \/ HandleSend
  \/ \E i \in MutIds : Mutate(i, "S1")
  \/ \E i \in MutIds : MutateFailed(i)
  \/ \E i \in MutIds : \E complete \in BOOLEAN : MutateSucceeded(i, complete)

OobSpec == WsInit /\ [][OobNext]_vars

(* ======================================================================= *)
(* C33: the rollback and the merges made since the optimistic insert       *)
(* ======================================================================= *)

(* the list s without the message whose id is id *)
WithoutId(s, id) == SelectSeq(s, LAMBDA m : m.id # id)

(* the step is the onError rollback of mutation i *)
RollbackOf(i) == mut[i].phase \in {"creating", "sending"} /\ MutateFailed(i)

(* C33, as stated: the rollback of a failed send that took a snapshot        *)
(* removes the optimistic user message of that send, found by its local     *)
(* id, and nothing else: whatever other merges wrote to the list since the  *)
(* optimistic insert is kept                                                *)
C33_RollbackKeepsOtherMerges ==
  [][\A i \in MutIds :
       (RollbackOf(i) /\ mut[i].previousMessages.def) =>
         /\ cache'[mut[i].sessionId].def
         /\ cache'[mut[i].sessionId].messages =
              WithoutId(cache[mut[i].sessionId].messages,
                        mut[i].optimisticUserMessageId)]_vars

(* C33, the case: a send is in flight with its snapshot taken, and the      *)
(* list holds a message that is neither in the snapshot nor the optimistic  *)
(* message of the send: another merge wrote it since the insert             *)
C33_MergeSinceOptimisticInsert ==
  \E i \in MutIds :
    /\ mut[i].phase = "sending"
    /\ mut[i].previousMessages.def
    /\ cache[mut[i].sessionId].def
    /\ \E j \in 1..Len(cache[mut[i].sessionId].messages) :
         LET m == cache[mut[i].sessionId].messages[j]
         IN /\ m.id # mut[i].optimisticUserMessageId
            /\ m.id \notin IdsOf(mut[i].previousMessages.messages)

(* the store's catch block removes the message of the failed send by its    *)
(* id and keeps the rest of the list: this half of C33 holds                *)
StoreCatchKeepsOtherMerges ==
  [][\A i \in StoreSendIds :
       (pending.sends[i].phase = "sending" /\ StoreSendFailed(i)) =>
         LET actual == pending.sends[i].actualSessionId
         IN storeMessages(store', actual) =
              WithoutId(storeMessages(store, actual), pending.sends[i].userMessage)]_vars

(* ======================================================================= *)
(* C34: the out-of-band merge leaves one message per event                 *)
(* ======================================================================= *)

(* the message m is the one the event (tag, responseId, message) put in the *)
(* list                                                                     *)
IsOobEvent(m, tag, responseId, message) ==
  /\ m.kind = tag
  /\ m.content = <<message>>
  /\ IF responseId # "" THEN m.id = SrvId(responseId) ELSE m.id.k = tag

(* the positions of the event in the list s *)
OobPositions(s, tag, responseId, message) ==
  {j \in 1..Len(s) : IsOobEvent(s[j], tag, responseId, message)}

(* merging the event once more, at time t, into a list that holds it        *)
(* changes nothing but the timestamp (and the generated id) of its entry    *)
MergedAgainInPlace(old, tag, responseId, t) ==
  LET once == addOobMessage(old, tag, "S1", "bye", responseId, now)
      twice == addOobMessage(once, tag, "S1", "bye", responseId, t)
      p == OobPositions(once.messages, tag, responseId, "bye")
  IN /\ Cardinality(p) = 1
     /\ OobPositions(twice.messages, tag, responseId, "bye") = p
     /\ Len(twice.messages) = Len(once.messages)
     /\ \A j \in 1..Len(once.messages) : j \notin p => twice.messages[j] = once.messages[j]

(* the step delivers again an out-of-band event whose message is listed *)
Redelivered(f) ==
  /\ f.type \in {"idle_warning", "session_end"}
  /\ mounted /\ actualSessionId = "S1"
  /\ FrameAccepted(f, "S1")
  /\ cache["S1"].def
  /\ SrvId(f.response_id) \in IdsOf(cache["S1"].messages)
  /\ DeliverFrame(f)

(* C34: delivering an idle-warning or session-end event again (same event   *)
(* id, or same tag and content when it has no id) leaves exactly one        *)
(* message for it, at the position it had, and the rest of the list as it   *)
(* was                                                                      *)
C34_OobMergeDuplicateFree ==
  /\ [](\A tag \in {"idle_warning", "session_end"} : \A responseId \in {"R2", ""} :
          \A t \in {now, now + 1} :
            MergedAgainInPlace(cache["S1"], tag, responseId, t))
  /\ [][\A f \in OobSpecFrames :
          Redelivered(f) =>
            LET before == cache["S1"].messages
                after == cache'["S1"].messages
                p == {j \in 1..Len(before) : before[j].id = SrvId(f.response_id)}
            IN /\ Len(after) = Len(before)
               /\ OobPositions(after, f.type, f.response_id, f.message) = p
               /\ Cardinality(p) = 1
               /\ \A j \in 1..Len(before) : j \notin p => after[j] = before[j]]_vars

(* C34, witness: the idle warning R2 was delivered, a send put its messages *)
(* after it, and the warning was delivered again: it is still the first     *)
(* entry, stamped with the later time, and the list has no second one       *)
C34_WarningRedeliveredInPlace ==
  /\ cache["S1"].def
  /\ Len(cache["S1"].messages) = 3
  /\ IsOobEvent(cache["S1"].messages[1], "idle_warning", "R2", "bye")
  /\ cache["S1"].messages[1].timestamp = 1
  /\ cache["S1"].messages[2].id = TempUserId(1)
  /\ fetching["S1"]

(* ======================================================================= *)
(* C35: a listed session-end message and isComplete                        *)
(* ======================================================================= *)

(* the cached list of conversation c holds a message tagged session_end *)
SessionEnded(c) == cache[c].def /\ hasSessionEnd(cache[c].messages)

(* C35, as stated: a conversation whose list holds a session-end message    *)
(* (merged live or loaded from history) has isComplete = TRUE, whatever     *)
(* terminal event or HTTP send response is merged before or after it, and   *)
(* isComplete does not go back to FALSE while the message is listed         *)
C35_SessionEndForcesComplete ==
  /\ [](\A c \in Canon : SessionEnded(c) => convState[c].isComplete)
  /\ [][\A c \in Canon :
          (SessionEnded(c) /\ convState[c].isComplete /\ cache'[c].def
             /\ hasSessionEnd(cache'[c].messages))
            => convState'[c].isComplete]_vars

(* C35, the divergence: S1's list holds the session-end message and the     *)
(* reply of a terminal event merged after it, and isComplete is FALSE       *)
C35_CompleteResetAfterSessionEnd ==
  /\ SessionEnded("S1")
  /\ ~convState["S1"].isComplete
  /\ SrvId("R1") \in IdsOf(cache["S1"].messages)

(* ======================================================================= *)
(* C36: merging a history page a second time                               *)
(* ======================================================================= *)

(* every message of the page the server returns for conversation c from     *)
(* the offset on is already in c's list: the page has been merged           *)
PageMerged(c, offset) ==
  LET page == MapConvert(getChatHistory(c, MESSAGES_PER_PAGE, offset).messages, c)
  IN page # << >> /\ IdsOf(page) \subseteq IdsOf(storeMessages(store, c))

(* the step merges the initial page (the older page) of c when it resolves *)
InitialPageArrives(c) == store.isLoading[c] = "true" /\ LoadInitialDone(c)
OlderPageArrives(c) == store.isLoadingOlder[c] = "true" /\ LoadOlderDone(c)

(* C36, as stated: merging a history page (initial or older) whose          *)
(* messages are already merged leaves the list as it was, and a page that   *)
(* arrives changes only the state of its own conversation                   *)
C36_HistoryMergeIdempotent ==
  [][\A c \in Canon :
       /\ (InitialPageArrives(c) /\ PageMerged(c, 0))
            => storeMessages(store', c) = storeMessages(store, c)
       /\ (OlderPageArrives(c) /\ PageMerged(c, pending.olderOffset[c]))
            => storeMessages(store', c) = storeMessages(store, c)
       /\ (InitialPageArrives(c) \/ OlderPageArrives(c))
            => \A d \in ConvIds \ {c} :
                 /\ store'.messages[d] = store.messages[d]
                 /\ store'.offset[d] = store.offset[d]
                 /\ store'.hasMore[d] = store.hasMore[d]
                 /\ store'.loadedSessions[d] = store.loadedSessions[d]]_vars


(* C36, the divergence: the server holds one message for S1, both history   *)
(* requests have resolved with that one page, and S1's list holds the       *)
(* page twice                                                               *)
C36_SamePageMergedTwice ==
  /\ Len(server["S1"]) = 1
  /\ store.isLoading["S1"] = "false"
  /\ store.isLoadingOlder["S1"] = "false"
  /\ storeMessages(store, "S1") =
       MapConvert(server["S1"], "S1") \o MapConvert(server["S1"], "S1")
  /\ \A i \in StoreSendIds : pending.sends[i].phase = "idle"


(* what does hold of C36: the initial page merged again changes nothing,    *)
(* and a page that arrives changes only its own conversation                *)
InitialMergeIdempotentAndKeyed ==
  [][\A c \in Canon :
       /\ (InitialPageArrives(c) /\ PageMerged(c, 0))
            => IdsOf(storeMessages(store', c)) = IdsOf(storeMessages(store, c))
                 /\ Len(storeMessages(store', c)) = Len(storeMessages(store, c))
       /\ (InitialPageArrives(c) \/ OlderPageArrives(c))
            => \A d \in ConvIds \ {c} :
                 /\ store'.messages[d] = store.messages[d]
                 /\ store'.offset[d] = store.offset[d]
                 /\ store'.hasMore[d] = store.hasMore[d]
                 /\ store'.loadedSessions[d] = store.loadedSessions[d]]_vars

(* ======================================================================= *)
(* C37: one conversation's operations and the other conversations          *)
(* ======================================================================= *)

(* the visitor has two conversations *)
IsoInit ==
  /\ now = 0
  /\ sessions = Canon
  /\ cache = [c \in ConvIds |-> NoData]
  /\ convState = [c \in ConvIds |-> NoState]
  /\ fetching = [c \in ConvIds |-> FALSE]
  /\ mounted = FALSE
  /\ chatId = ""
  /\ actualSessionId = ""
  /\ isSending = FALSE
  /\ creating = 0
  /\ isConnected = FALSE
  /\ isConnecting = FALSE
  /\ streamingState = EmptyStreaming
  /\ connectionRef = 0
  /\ connectTimer = FALSE
  /\ conns = [i \in ConnIds |-> FreeConn]
  /\ sent = << >>
  /\ errors = 0
  /\ LegacyIdle

(* conversation c has not been opened: no list, no history request *)
NotOpenedYet(c) == ~cache[c].def /\ ~fetching[c]

(* IsoSpec: the visitor opens S1 (or not), then goes through the list to   *)
(* S2, each conversation once; S1 is only read (its history and the idle   *)
(* warnings arrive) and its socket may fail, S2 is written to; history     *)
(* responses and socket events of S1 may arrive while S2 is shown          *)
IsoFrames ==
  {Frame("chunk", "A ", "", "", FALSE, "", ""),
   Frame("complete", "", "M1", "R1", TRUE, "", ""),
   Frame("idle_warning", "", "", "R2", FALSE, "bye", "S1"),
   Frame("idle_warning", "", "", "R2", FALSE, "bye", "S2")}
IsoNext ==
  \/ NotOpenedYet("S1") /\ NotOpenedYet("S2") /\ Mount("S1")
  \/ NotOpenedYet("S2") /\ Mount("S2")
  \/ Unmount
  \/ \E c \in Canon : HistoryFetchDone(c, <<convertApiMessage("M1", c, 0, "")>>)
  \/ ConnectTimerFires
  \/ \E i \in ConnIds : SocketOpen(i)
  \/ \E i \in ConnIds : conns[i].sid = "S1" /\ SocketClose(i, 1006)
  \/ \E f \in IsoFrames :
       /\ (actualSessionId = "S1" => f.type = "idle_warning")
       /\ DeliverFrame(f)
  \/ actualSessionId = "S2" /\ HandleSend

IsoSpec == IsoInit /\ [][IsoNext]_vars

(* the step is an operation, a response or a socket event of conversation a *)
StepOf(a) ==
  \/ Mount(a)
  \/ /\ mounted /\ actualSessionId = a
     /\ \/ Unmount
        \/ ConnectTimerFires
        \/ HandleSend
        \/ \E f \in IsoFrames : DeliverFrame(f)
  \/ HistoryFetchDone(a, <<convertApiMessage("M1", a, 0, "")>>)
  \/ \E i \in ConnIds : conns[i].live /\ conns[i].sid = a
                         /\ (SocketOpen(i) \/ SocketClose(i, 1006))

(* the list, the derived state, the history request and the connections of *)
(* conversation b are as they were, and so are the accumulator and the      *)
(* connection flags when b is the conversation shown                        *)
Untouched(b) ==
  /\ cache'[b] = cache[b]
  /\ convState'[b] = convState[b]
  /\ fetching'[b] = fetching[b]
  /\ \A i \in ConnIds : (conns[i].live /\ conns[i].sid = b) => conns'[i] = conns[i]
  /\ \A i \in ConnIds : (conns'[i].live /\ conns'[i].sid = b) => conns'[i] = conns[i]
  /\ (mounted /\ actualSessionId = b) =>
       UNCHANGED <<streamingState, isConnected, isConnecting, isSending,
                   connectionRef, mounted, actualSessionId>>

(* the step delivers an out-of-band event that names another conversation   *)
(* than the one the socket belongs to                                       *)
ForeignOob(f) ==
  /\ f.type \in {"idle_warning", "session_end"}
  /\ mounted /\ actualSessionId \in Canon
  /\ f.session_id # actualSessionId
  /\ DeliverFrame(f)

(* what does hold of C37: between two conversations that both exist, an    *)
(* operation or frame of one leaves the list, the accumulator, the derived *)
(* state and the connection of the other unchanged, and an out-of-band     *)
(* event that names another conversation changes nothing                   *)
ExistingConversationsIsolated ==
  [][/\ \A a \in Canon : \A b \in Canon \ {a} : StepOf(a) => Untouched(b)
     /\ \A f \in IsoFrames :
          ForeignOob(f) => UNCHANGED <<cache, convState, conns, streamingState,
                                       isConnected, isConnecting, isSending>>]_vars

(* S2 is shown with its socket open and a partial reply in the accumulator, *)
(* while the socket of S1, left open when S1's screen was left, is still    *)
(* there and S1's history request is still running                          *)
OtherConversationBusy ==
  /\ mounted /\ actualSessionId = "S2"
  /\ connectionRef # 0 /\ conns[connectionRef].ws = "OPEN"
  /\ streamingState.content # << >>
  /\ fetching["S1"]
  /\ \E i \in ConnIds : conns[i].live /\ conns[i].sid = "S1" /\ conns[i].ws = "OPEN"


(* the step is the rest of a first send on the new chat (its session has    *)
(* just been created) while the screen shows another, canonical,            *)
(* conversation                                                             *)
NewChatSendWhileOtherShown ==
  /\ creating > 0
  /\ mounted /\ actualSessionId \in Canon
  /\ CreateSessionOk

(* C37, as stated: an operation of one conversation (here the first send of *)
(* a new chat, whose session has just been created) leaves the list, the    *)
(* derived state, the accumulator, the in-flight flag and the connection of *)
(* the other conversation (here the one that is shown) unchanged, and       *)
(* transmits nothing over that conversation's socket                        *)
C37_ConversationsIsolated ==
  [][NewChatSendWhileOtherShown =>
       /\ cache'[actualSessionId] = cache[actualSessionId]
       /\ convState'[actualSessionId] = convState[actualSessionId]
       /\ streamingState' = streamingState
       /\ isSending' = isSending
       /\ conns' = conns
       /\ sent' = sent]_vars

(* C37, the divergence: S1 is the only conversation that ever had a socket, *)
(* the screen shows S2, and the payload of the new chat's first send, which *)
(* names the provisional id, went out over S1's socket                      *)
C37_SentOverOtherConversationsSocket ==
  /\ mounted /\ actualSessionId = "S2"
  /\ connectionRef # 0
  /\ conns[connectionRef].sid = "S1" /\ conns[connectionRef].ws = "OPEN"
  /\ \A i \in ConnIds : conns[i].live => conns[i].sid = "S1"
  /\ Len(sent) = 1
  /\ sent[1].session_id = TempChat

(* ======================================================================= *)
(* C38: isConnected and the socket                                          *)
(* ======================================================================= *)

(* the socket the hook's connection holds is open *)
CurrentSocketOpen == connectionRef # 0 /\ conns[connectionRef].ws = "OPEN"

(* nothing is pending for the screen: the connect timer is not armed, no    *)
(* session is being created and no socket of the hook's connection is      *)
(* connecting, closing or waiting for its close event or a timer           *)
Quiescent ==
  /\ mounted
  /\ ~connectTimer
  /\ creating = 0
  /\ connectionRef # 0 =>
       /\ conns[connectionRef].ws \in {"OPEN", "null"}
       /\ conns[connectionRef].detached = 0
       /\ ~conns[connectionRef].connectionTimeout
       /\ ~conns[connectionRef].reconnectTimeout

(* C38, as stated: in every quiescent state isConnected is TRUE exactly     *)
(* when the current socket is open; it does not stay FALSE over an open     *)
(* socket after a frame that does not parse or a transmit that fails        *)
C38_IsConnectedAgreesWithSocket ==
  Quiescent => (isConnected <=> CurrentSocketOpen)

(* C38, the divergence: the socket of S1 is open, nothing is pending, one   *)
(* error was reported and isConnected is FALSE                              *)
C38_DisconnectedOverOpenSocket ==
  /\ Quiescent
  /\ CurrentSocketOpen
  /\ ~isConnected
  /\ errors = 1

(* ======================================================================= *)
(* C39: the close event of a socket that is no longer the current handle   *)
(* ======================================================================= *)

(* new WebSocketConnection(config) and connect(), by a caller other than    *)
(* the hook                                                                 *)
NewInstance(i) ==
  /\ ~conns[i].live
  /\ conns' = [conns EXCEPT ![i] = connect([NewConn("S1") EXCEPT !.owner = FALSE])]
  /\ UNCHANGED <<now, sessions, cache, convState, fetching, mounted, chatId,
                 actualSessionId, isSending, creating, isConnected, isConnecting,
                 streamingState, connectionRef, connectTimer, sent, errors>>
  /\ UNCHANGED legacyVars

(* the caller calls connect() on the instance *)
InstanceConnect(i) ==
  /\ conns[i].live
  /\ conns' = [conns EXCEPT ![i] = connect(conns[i])]
  /\ UNCHANGED <<now, sessions, cache, convState, fetching, mounted, chatId,
                 actualSessionId, isSending, creating, isConnected, isConnecting,
                 streamingState, connectionRef, connectTimer, sent, errors>>
  /\ UNCHANGED legacyVars

(* the caller calls disconnect() on the instance *)
InstanceDisconnect(i) ==
  /\ conns[i].live
  /\ conns[i].detached < MaxDetached
  /\ conns' = [conns EXCEPT ![i] = disconnect(conns[i])]
  /\ UNCHANGED <<now, sessions, cache, convState, fetching, mounted, chatId,
                 actualSessionId, isSending, creating, isConnected, isConnecting,
                 streamingState, connectionRef, connectTimer, sent, errors>>
  /\ UNCHANGED legacyVars

(* InstanceSpec: one WebSocketConnection whose caller may call connect()    *)
(* and disconnect() in any order, with the events of its sockets and its    *)
(* timers                                                                   *)
InstanceNext ==
  \/ NewInstance(1)
  \/ InstanceConnect(1)
  \/ InstanceDisconnect(1)
  \/ \E i \in ConnIds : SocketOpen(i)
  \/ \E i \in ConnIds : \E code \in {1000, 1006} : SocketClose(i, code)
  \/ \E i \in ConnIds : DetachedClose(i)
  \/ \E i \in ConnIds : ConnectionTimeoutFires(i)
  \/ \E i \in ConnIds : ReconnectTimerFires(i)

InstanceSpec == WsInit /\ [][InstanceNext]_vars

(* the step is the close event of a socket that disconnect() dropped *)
StaleClose(i) == conns[i].live /\ conns[i].detached > 0 /\ DetachedClose(i)

(* C39, as stated: on one instance, the close event of a socket that is no  *)
(* longer the current handle does not clear the current handle, does not    *)
(* touch the timers of the current socket and schedules no reconnection,    *)
(* so the instance neither loses track of a live socket nor comes to own    *)
(* two                                                                      *)
C39_StaleCloseLeavesCurrentHandle ==
  [][\A i \in ConnIds :
       StaleClose(i) =>
         /\ conns'[i].ws = conns[i].ws
         /\ conns'[i].connectionTimeout = conns[i].connectionTimeout
         /\ conns'[i].reconnectTimeout = conns[i].reconnectTimeout]_vars

(* C39, the divergence: the instance created two sockets (connect,          *)
(* disconnect, connect), no close event is outstanding, and although the    *)
(* second socket never closed the handle is null and a first reconnection   *)
(* is scheduled: the second socket is live and the instance is about to     *)
(* create a third                                                           *)
C39_LiveSocketForgotten ==
  /\ conns[1].live
  /\ conns[1].ws = "null"
  /\ conns[1].sockets = 2
  /\ conns[1].detached = 0
  /\ conns[1].reconnectTimeout
  /\ conns[1].reconnectAttempts = 1
  /\ ~conns[1].isManuallyClosed

(* ======================================================================= *)
(* C40: the in-flight flag after a send the server never answers           *)
(* ======================================================================= *)

(* LockSpec: conversation S1; the socket may drop and the instance          *)
(* reconnects; the server may stream and end a reply, or send nothing.     *)
(* Timers that are armed fire and a socket that is connecting opens; the    *)
(* frames of the server are not promised                                    *)
LockFrames ==
  {Frame("chunk", "A ", "", "", FALSE, "", ""),
   Frame("complete", "", "M1", "R1", FALSE, "", "")}
LockNext ==
  \/ Mount("S1")
  \/ HistoryFetchDone("S1", << >>)
  \/ ConnectTimerFires
  \/ \E i \in ConnIds : SocketOpen(i)
  \/ \E i \in ConnIds : SocketClose(i, 1006)
  \/ \E i \in ConnIds : ReconnectTimerFires(i)
  \/ \E f \in LockFrames : DeliverFrame(f)
  \/ HandleSend
  \/ ResetSending

LockSpec ==
  /\ WsInit
  /\ [][LockNext]_vars
  /\ WF_vars(ConnectTimerFires)
  /\ WF_vars(HistoryFetchDone("S1", << >>))
  /\ WF_vars(ResetSending)
  /\ \A i \in ConnIds : WF_vars(SocketOpen(i))
  /\ \A i \in ConnIds : WF_vars(ReconnectTimerFires(i))

(* a send is in flight on S1, the socket is open and reported open, and the *)
(* conversation is not complete                                             *)
SendingOverOpenSocket ==
  /\ mounted /\ actualSessionId = "S1"
  /\ isSending
  /\ isConnected /\ CurrentSocketOpen
  /\ ~convState["S1"].isComplete

(* C40, as stated: after an accepted send, whenever the connection is open  *)
(* (again) and the conversation is not complete, the in-flight flag is      *)
(* eventually cleared, also when the connection dropped in mid-stream and   *)
(* no terminal or error frame ever arrives (from some point on the server   *)
(* sends nothing)                                                           *)
C40_NoPermanentSendLockOut ==
  (<>[][\A f \in LockFrames : ~DeliverFrame(f)]_vars)
    => (SendingOverOpenSocket ~> ~isSending)

(* C40, the divergence: the send went out, the socket dropped and was       *)
(* opened again by the reconnection, no frame is buffered, and the flag is  *)
(* still set with the typing indicator still listed: nothing that is left   *)
(* to happen without a frame from the server clears it                      *)
C40_LockedOutAfterReconnect ==
  /\ SendingOverOpenSocket
  /\ Len(sent) = 1
  /\ streamingState = EmptyStreaming
  /\ Placeholders(cache["S1"].messages) # {}
  /\ ~fetching["S1"] /\ ~connectTimer
  /\ ~ENABLED ResetSending

====
